---- MODULE Spec2Model ----
(***************************************************************************)
(* Model of the Dimes CAD server core (server/src): the session registry   *)
(* (SessionManager), the per-session engine registries (OCCTEngine), the   *)
(* 2D sketch element model with its fillet geometry (Sketch), and the      *)
(* extrude feature (ExtrudeFeature).                                       *)
(*                                                                         *)
(* Numbers of type double are modelled in fixed point: a value v is the    *)
(* integer v * SCALE, products and quotients are rounded to the nearest    *)
(* integer.  Identifiers built by string streams ("Line_3") are modelled   *)
(* as tuples (<<"Line", 3>>); the empty string is the empty tuple.         *)
(***************************************************************************)
EXTENDS Integers, Sequences, FiniteSets, TLC

VARIABLES
    \* ---- Sketch (sketch.h:32-37) ----
    elements_,      \* Sketch::elements_, the ordered element sequence
    is_closed_,     \* Sketch::is_closed_
    call,           \* the last Sketch operation called, with its arguments
    ret,            \* the value that call returned
    threw,          \* TRUE when that call left by an exception
    \* ---- ExtrudeFeature (extrude_feature.h:32-38) ----
    feature,        \* the feature: its base, parameters_, result_shape_, is_valid_
    xcall,          \* the last ExtrudeFeature operation called
    xret,           \* the value that call returned
    prism_vector,   \* the vector that call handed to BRepPrimAPI_MakePrism
    kernel_calls,   \* the geometry-kernel calls that call made, in order
    \* ---- SessionManager (session_manager.h:12-14) and its callers ----
    sessions_,      \* SessionManager::sessions_: session id -> engine instance
    sessions_mutex_,\* SessionManager::sessions_mutex_: 0 or the thread holding it
    engines,        \* the OCCTEngine instances ever allocated, by instance number
    pc,             \* where each request thread stands
    sid,            \* the session id of each thread's request
    engine_ptr,     \* the OCCTEngine* each thread got from getOrCreateSession
    last,           \* each thread's last finished call: [op, args, ret]
    now,            \* std::time(nullptr), in seconds
    issued,         \* per engine instance: the <<registry, id>> its creates returned
    cleaned,        \* threads whose session was cleaned up after they got it
    called_unknown, \* threads whose getOrCreateSession began on an unknown id
    use_after_free  \* a thread has used an engine after its destruction

sketchVars == <<elements_, is_closed_, call, ret, threw>>

extrudeVars == <<feature, xcall, xret, prism_vector, kernel_calls>>

registryVars == <<sessions_, sessions_mutex_, engines, pc, sid, engine_ptr,
                  last, now, issued, cleaned, called_unknown, use_after_free>>

vars == <<elements_, is_closed_, call, ret, threw,
          feature, xcall, xret, prism_vector, kernel_calls,
          sessions_, sessions_mutex_, engines, pc, sid, engine_ptr,
          last, now, issued, cleaned, called_unknown, use_after_free>>

----------------------------------------------------------------------------
(* Fixed-point arithmetic standing for double.                             *)

\* resolution of the fixed-point representation: 1.0 is SCALE
SCALE == 1000

Abs(a) == IF a < 0 THEN -a ELSE a

\* a / b rounded to the nearest integer, b # 0
RDiv(a, b) ==
    LET q == (2 * Abs(a) + Abs(b)) \div (2 * Abs(b))
    IN  IF (a < 0) # (b < 0) THEN -q ELSE q

Fx(n) == n * SCALE

FxMul(a, b) == RDiv(a * b, SCALE)

\* the largest magnitude kept; stands for the infinity a division by zero yields
FxInf == 1000000

FxDiv(a, b) ==
    IF b = 0 THEN (IF a < 0 THEN -FxInf ELSE FxInf) ELSE RDiv(a * SCALE, b)

RECURSIVE SqrtSearch(_, _, _)
\* the largest r in lo..hi with r * r <= n
SqrtSearch(n, lo, hi) ==
    IF lo >= hi THEN lo
    ELSE LET mid == (lo + hi + 1) \div 2
         IN  IF mid * mid <= n THEN SqrtSearch(n, mid, hi)
                               ELSE SqrtSearch(n, lo, mid - 1)

\* sqrt(n) rounded to the nearest integer, 0 <= n < 2^31
ISqrt(n) ==
    LET r == SqrtSearch(n, 0, 46340)
    IN  IF n - r * r > r THEN r + 1 ELSE r

----------------------------------------------------------------------------
(* gp_Pnt2d / gp_Vec2d: pairs <<x, y>> of fixed-point numbers.             *)

Pnt(x, y) == <<Fx(x), Fx(y)>>

VecSub(a, b) == <<a[1] - b[1], a[2] - b[2]>>

VecAdd(a, b) == <<a[1] + b[1], a[2] + b[2]>>

Dot(a, b) == FxMul(a[1], b[1]) + FxMul(a[2], b[2])

Magnitude(v) == ISqrt(v[1] * v[1] + v[2] * v[2])

\* gp_Vec2d::Normalize raises Standard_ConstructionError on a null vector
CanNormalize(v) == Magnitude(v) > 0

Normalized(v) ==
    LET m == Magnitude(v) IN <<FxDiv(v[1], m), FxDiv(v[2], m)>>

----------------------------------------------------------------------------
(* SketchElement and the identifiers of a sketch.                          *)

NoId == <<>>

ElementId(prefix, n) == <<prefix, n>>

Origin2d == <<0, 0>>

SketchElement(t, element_id) ==
    [type |-> t, id |-> element_id,
     start_point |-> Origin2d, end_point |-> Origin2d, center_point |-> Origin2d,
     parameters |-> <<>>, referenced_elements |-> <<>>]

Result(elems, r, ex) == [elements |-> elems, ret |-> r, threw |-> ex]

addLine(elems, start, end) ==
    LET line_id == ElementId("Line", Len(elems) + 1)
        line == [SketchElement("LINE", line_id) EXCEPT
                    !.start_point = start, !.end_point = end]
    IN  Result(Append(elems, line), line_id, FALSE)

addCircle(elems, center, radius) ==
    LET circle_id == ElementId("Circle", Len(elems) + 1)
        circle == [SketchElement("CIRCLE", circle_id) EXCEPT
                    !.center_point = center, !.parameters = <<radius>>]
    IN  Result(Append(elems, circle), circle_id, FALSE)

addRectangle(elems, corner, width, height) ==
    LET rectangle_id == ElementId("Rectangle", Len(elems) + 1)
        rectangle == [SketchElement("RECTANGLE", rectangle_id) EXCEPT
                    !.start_point = corner, !.parameters = <<width, height>>]
    IN  Result(Append(elems, rectangle), rectangle_id, FALSE)

addArc(elems, center, start, end, radius) ==
    LET arc_id == ElementId("Arc", Len(elems) + 1)
        arc == [SketchElement("ARC", arc_id) EXCEPT
                    !.center_point = center, !.start_point = start,
                    !.end_point = end, !.parameters = <<radius>>]
    IN  Result(Append(elems, arc), arc_id, FALSE)

\* std::remove_if + erase: every element carrying the identifier goes
removeElement(elems, element_id) ==
    SelectSeq(elems, LAMBDA e : e.id # element_id)

\* the element the lookup loops end on: the last one carrying the identifier
\* (0 stands for nullptr)
FindElement(elems, element_id) ==
    LET hits == {i \in 1..Len(elems) : elems[i].id = element_id}
    IN  IF hits = {} THEN 0 ELSE CHOOSE i \in hits : \A j \in hits : j <= i

\* exponent of the parallel test's epsilon, 1e-10
DetEpsExp == 10

RECURSIVE BelowPow10(_, _)
\* a / SCALE < 10^(-k), for a >= 0
BelowPow10(a, k) ==
    IF k = 0 THEN a < SCALE ELSE a < SCALE /\ BelowPow10(a * 10, k - 1)

LineDir(e) == VecSub(e.end_point, e.start_point)

Cross(a, b) == FxMul(a[1], b[2]) - FxMul(a[2], b[1])

getElementIntersection(elems, element1_id, element2_id) ==
    LET i1 == FindElement(elems, element1_id)
        i2 == FindElement(elems, element2_id)
        none == [ok |-> FALSE, point |-> Origin2d]
    IN  IF i1 = 0 \/ i2 = 0 THEN none
        ELSE IF elems[i1].type = "LINE" /\ elems[i2].type = "LINE"
        THEN LET p1 == elems[i1].start_point
                 d1 == LineDir(elems[i1])
                 p2 == elems[i2].start_point
                 d2 == LineDir(elems[i2])
                 det == Cross(d1, d2)
             IN  IF BelowPow10(Abs(det), DetEpsExp) THEN none
                 ELSE LET dx == p2[1] - p1[1]
                          dy == p2[2] - p1[2]
                          t1 == FxDiv(FxMul(dx, d2[2]) - FxMul(dy, d2[1]), det)
                      IN  [ok |-> TRUE,
                           point |-> <<p1[1] + FxMul(t1, d1[1]),
                                       p1[2] + FxMul(t1, d1[2])>>]
        ELSE none

\* sin(abs(dir1.Angle(dir2)) / 2.0) for unit vectors: the angle lies in
\* [0, pi] and |dir1 - dir2| = 2 sin(angle / 2)
SinHalfAngle(dir1, dir2) == RDiv(Magnitude(VecSub(dir1, dir2)), 2)

\* the tangent point of one line: the fillet center moved by radius towards
\* its projection on the line
TangentPoint(element, dir, fillet_center, radius) ==
    LET to_center == VecSub(fillet_center, element.start_point)
        dot == Dot(to_center, dir)
        projection == <<element.start_point[1] + FxMul(dot, dir[1]),
                        element.start_point[2] + FxMul(dot, dir[2])>>
        to_fillet == VecSub(fillet_center, projection)
    IN  IF ~CanNormalize(to_fillet) THEN [threw |-> TRUE, point |-> Origin2d]
        ELSE LET n == Normalized(to_fillet)
             IN  [threw |-> FALSE,
                  point |-> <<fillet_center[1] - FxMul(n[1], radius),
                              fillet_center[2] - FxMul(n[2], radius)>>]

\* FilletCenter with the offset taken as the radius itself
FilletCenter_noAngle(dir1, dir2, intersection, radius) ==
    LET bisector == Normalized(VecAdd(dir1, dir2))
    IN  <<intersection[1] + FxMul(bisector[1], radius),
          intersection[2] + FxMul(bisector[2], radius)>>

\* the fillet center offset from the intersection along the bisector
FilletCenter(dir1, dir2, intersection, radius) ==
    LET bisector == Normalized(VecAdd(dir1, dir2))
        offset == FxDiv(radius, SinHalfAngle(dir1, dir2))
    IN  <<intersection[1] + FxMul(bisector[1], offset),
          intersection[2] + FxMul(bisector[2], offset)>>

\* the line-line branch of addFillet
LineLineFillet(elems, fillet_id, element1, element2, intersection, radius) ==
    LET raw1 == LineDir(element1)
        raw2 == LineDir(element2)
        failed == Result(elems, NoId, TRUE)
    IN  IF ~CanNormalize(raw1) \/ ~CanNormalize(raw2) THEN failed
        ELSE
        LET dir1 == Normalized(raw1)
            dir2 == Normalized(raw2)
        IN  IF ~CanNormalize(VecAdd(dir1, dir2)) THEN failed
            ELSE
            LET fillet_center == FilletCenter(dir1, dir2, intersection, radius)
                t1 == TangentPoint(element1, dir1, fillet_center, radius)
                t2 == TangentPoint(element2, dir2, fillet_center, radius)
                fillet == [SketchElement("FILLET", fillet_id) EXCEPT
                             !.center_point = fillet_center,
                             !.start_point = t1.point,
                             !.end_point = t2.point,
                             !.parameters = <<radius>>,
                             !.referenced_elements =
                                 <<element1.id, element2.id>>]
            IN  IF t1.threw \/ t2.threw THEN failed
                ELSE Result(Append(elems, fillet), fillet_id, FALSE)

\* addFillet that stores a default fillet for a pair it has no geometry for
addFillet_storesUnsupported(elems, element1_id, element2_id, radius) ==
    LET fillet_id == ElementId("Fillet", Len(elems) + 1)
        i1 == FindElement(elems, element1_id)
        i2 == FindElement(elems, element2_id)
        fillet == [SketchElement("FILLET", fillet_id) EXCEPT
                     !.parameters = <<radius>>,
                     !.referenced_elements = <<element1_id, element2_id>>]
    IN  IF i1 = 0 \/ i2 = 0 THEN Result(elems, NoId, FALSE)
        ELSE IF elems[i1].type = "LINE" /\ elems[i2].type = "LINE"
        THEN LET inter == getElementIntersection(elems, element1_id, element2_id)
             IN  IF ~inter.ok THEN Result(elems, NoId, FALSE)
                 ELSE LineLineFillet(elems, fillet_id, elems[i1], elems[i2],
                                     inter.point, radius)
        ELSE Result(Append(elems, fillet), fillet_id, FALSE)

addFillet(elems, element1_id, element2_id, radius) ==
    LET fillet_id == ElementId("Fillet", Len(elems) + 1)
        i1 == FindElement(elems, element1_id)
        i2 == FindElement(elems, element2_id)
    IN  IF i1 = 0 \/ i2 = 0 THEN Result(elems, NoId, FALSE)
        ELSE
        LET inter == getElementIntersection(elems, element1_id, element2_id)
        IN  IF ~inter.ok THEN Result(elems, NoId, FALSE)
            ELSE IF elems[i1].type = "LINE" /\ elems[i2].type = "LINE"
            THEN LineLineFillet(elems, fillet_id, elems[i1], elems[i2],
                                inter.point, radius)
            ELSE Result(elems, NoId, FALSE)

\* the record of an operation call
Call(op, args) == [op |-> op, args |-> args]

\* the sketch before its first operation
SketchIdle ==
    /\ elements_ = <<>>
    /\ is_closed_ = FALSE
    /\ call = Call("Sketch", <<>>)
    /\ ret = NoId
    /\ threw = FALSE

----------------------------------------------------------------------------
(* ExtrudeFeature.  3D vectors are triples of fixed-point numbers.  The    *)
(* geometry kernel is an environment: whether the prism builder is done,   *)
(* whether it raises, and what the validity analyzer says are inputs.      *)

Vec3(x, y, z) == <<Fx(x), Fx(y), Fx(z)>>

Scale3(v, k) == <<FxMul(v[1], k), FxMul(v[2], k), FxMul(v[3], k)>>

Add3(a, b) == <<a[1] + b[1], a[2] + b[2], a[3] + b[3]>>

Reverse3(v) == <<-v[1], -v[2], -v[3]>>

Magnitude3(v) == ISqrt(v[1] * v[1] + v[2] * v[2] + v[3] * v[3])

\* exponent of the direction test's epsilon, 1e-6
DirEpsExp == 6

NullShape == [isNull |-> TRUE, vec |-> <<>>, valid |-> FALSE]

\* the solid BRepPrimAPI_MakePrism builds along v; valid is what
\* BRepCheck_Analyzer says of it
Prism(v, valid) == [isNull |-> FALSE, vec |-> v, valid |-> valid]

NoVector == <<>>

\* ExtrudeParameters with its defaults
ExtrudeParameters(dist) ==
    [type |-> "BLIND", distance |-> dist, direction |-> Vec3(0, 0, 1),
     reverse_direction |-> FALSE, taper_angle |-> 0,
     distance1 |-> Fx(5), distance2 |-> Fx(5)]

ExtrudeFeature(base, params) ==
    [base |-> base, parameters_ |-> params,
     result_shape_ |-> NullShape, is_valid_ |-> FALSE]

\* Sketch::isValid without the test for an empty element list
SketchIsValid_ignoresEmpty(base) ==
    IF base.wire = "null"
    THEN [valid |-> FALSE, calls |-> <<"createWire">>]
    ELSE [valid |-> base.wire = "valid",
          calls |-> <<"createWire", "BRepCheck_Analyzer">>]

\* Sketch::isValid of the base sketch, with the kernel calls it makes
SketchIsValid(base) ==
    IF base.empty THEN [valid |-> FALSE, calls |-> <<>>]
    ELSE IF base.wire = "null"
         THEN [valid |-> FALSE, calls |-> <<"createWire">>]
         ELSE [valid |-> base.wire = "valid",
               calls |-> <<"createWire", "BRepCheck_Analyzer">>]

HasBaseSketch(f) == f.base.kind = "sketch"

FaceToExtrudeIsNull(f) == f.base.kind # "face"

getValidationErrors(f) ==
    IF ~HasBaseSketch(f) /\ FaceToExtrudeIsNull(f)
    THEN [errors |-> <<"No base sketch or face provided">>, calls |-> <<>>]
    ELSE
    LET sk == IF HasBaseSketch(f) THEN SketchIsValid(f.base)
              ELSE [valid |-> TRUE, calls |-> <<>>]
        e1 == IF ~sk.valid
              THEN <<"Base sketch is invalid">>
                   \o (IF f.base.empty THEN <<"Sketch is empty">> ELSE <<>>)
                   \o <<"Sketch geometry is invalid">>
              ELSE <<>>
        \* Sketch::getValidationErrors runs isValid once more
        c1 == IF ~sk.valid THEN sk.calls \o sk.calls ELSE sk.calls
        e2 == IF f.parameters_.distance <= 0 /\ f.parameters_.type = "BLIND"
              THEN <<"Extrude distance must be positive">> ELSE <<>>
        e3 == IF f.parameters_.type = "SYMMETRIC"
                 /\ (f.parameters_.distance1 <= 0 \/ f.parameters_.distance2 <= 0)
              THEN <<"Symmetric extrude distances must be positive">> ELSE <<>>
        e4 == IF BelowPow10(Magnitude3(f.parameters_.direction), DirEpsExp)
              THEN <<"Extrude direction vector is too small">> ELSE <<>>
    IN  [errors |-> e1 \o e2 \o e3 \o e4, calls |-> c1]

canExtrude(f) == getValidationErrors(f).errors = <<>>

calculateExtrudeDirection(f) ==
    IF HasBaseSketch(f) THEN f.base.normal
    ELSE IF f.base.has_plane THEN f.base.normal
    ELSE Vec3(0, 0, 1)

\* the face both perform* functions start from, with the kernel calls made
SketchFace(f) ==
    IF ~FaceToExtrudeIsNull(f) THEN [isNull |-> FALSE, calls |-> <<>>]
    ELSE IF HasBaseSketch(f)
    THEN IF f.base.wire = "null"
         THEN [isNull |-> TRUE, calls |-> <<"createWire">>]
         ELSE [isNull |-> ~f.base.face_ok,
               calls |-> <<"createWire", "MakeFace">>]
    ELSE [isNull |-> TRUE, calls |-> <<>>]

\* the end of both perform* functions: the prism along v; k is what the
\* kernel does with it ("done", "notdone" or "throw"), a what the analyzer
\* would say of the solid
MakePrism(face, v, k, a) ==
    [shape |-> IF k = "done" THEN Prism(v, a) ELSE NullShape,
     vector |-> v,
     calls |-> face.calls \o <<"MakePrism">>,
     threw |-> k = "throw"]

NoPrism(face) ==
    [shape |-> NullShape, vector |-> NoVector, calls |-> face.calls,
     threw |-> FALSE]

\* performBlindExtrude that forgets reverse_direction
performBlindExtrude_ignoresReverse(f, k, a) ==
    LET sketch_face == SketchFace(f)
    IN  IF sketch_face.isNull THEN NoPrism(sketch_face)
        ELSE MakePrism(sketch_face,
                       Scale3(calculateExtrudeDirection(f), f.parameters_.distance),
                       k, a)

performBlindExtrude(f, k, a) ==
    LET sketch_face == SketchFace(f)
    IN  IF sketch_face.isNull THEN NoPrism(sketch_face)
        ELSE
        LET scaled == Scale3(calculateExtrudeDirection(f), f.parameters_.distance)
            extrude_vector == IF f.parameters_.reverse_direction
                              THEN Reverse3(scaled) ELSE scaled
        IN  MakePrism(sketch_face, extrude_vector, k, a)

performSymmetricExtrude(f, k, a) ==
    LET sketch_face == SketchFace(f)
    IN  IF sketch_face.isNull THEN NoPrism(sketch_face)
        ELSE
        LET direction == calculateExtrudeDirection(f)
            positive_vector == Scale3(direction, f.parameters_.distance1)
            negative_vector == Scale3(direction, -f.parameters_.distance2)
            total_vector == Add3(positive_vector, negative_vector)
        IN  MakePrism(sketch_face, total_vector, k, a)

\* the outcome of an ExtrudeFeature operation
XResult(f, r, v, calls) ==
    [feature |-> f, ret |-> r, vector |-> v, calls |-> calls]

\* execute() with the validation branch leaving is_valid_ as it was
execute_keepsValidity(f, k, a) ==
    LET check == getValidationErrors(f)
    IN  IF check.errors # <<>>
        THEN XResult(f, FALSE, NoVector, check.calls)
        ELSE
        LET p == IF f.parameters_.type = "SYMMETRIC"
                 THEN performSymmetricExtrude(f, k, a)
                 ELSE performBlindExtrude(f, k, a)
        IN  IF p.threw
            THEN XResult([f EXCEPT !.is_valid_ = FALSE], FALSE, p.vector,
                         check.calls \o p.calls)
            ELSE IF ~p.shape.isNull
            THEN XResult([f EXCEPT !.result_shape_ = p.shape,
                                   !.is_valid_ = p.shape.valid],
                         p.shape.valid, p.vector,
                         check.calls \o p.calls \o <<"BRepCheck_Analyzer">>)
            ELSE XResult([f EXCEPT !.result_shape_ = p.shape,
                                   !.is_valid_ = FALSE],
                         FALSE, p.vector, check.calls \o p.calls)

execute(f, k, a) ==
    LET check == getValidationErrors(f)
    IN  IF check.errors # <<>>
        THEN XResult([f EXCEPT !.is_valid_ = FALSE], FALSE, NoVector, check.calls)
        ELSE
        LET p == IF f.parameters_.type = "SYMMETRIC"
                 THEN performSymmetricExtrude(f, k, a)
                 ELSE performBlindExtrude(f, k, a)
        IN  IF p.threw
            THEN XResult([f EXCEPT !.is_valid_ = FALSE], FALSE, p.vector,
                         check.calls \o p.calls)
            ELSE IF ~p.shape.isNull
            THEN XResult([f EXCEPT !.result_shape_ = p.shape,
                                   !.is_valid_ = p.shape.valid],
                         p.shape.valid, p.vector,
                         check.calls \o p.calls \o <<"BRepCheck_Analyzer">>)
            ELSE XResult([f EXCEPT !.result_shape_ = p.shape,
                                   !.is_valid_ = FALSE],
                         FALSE, p.vector, check.calls \o p.calls)

\* generatePreview() without the canExtrude() test
generatePreview_skipsValidation(f, k, a) ==
    LET check == getValidationErrors(f)
        p == IF f.parameters_.type = "SYMMETRIC"
             THEN performSymmetricExtrude(f, k, a)
             ELSE performBlindExtrude(f, k, a)
    IN  XResult(f, p.shape, p.vector, check.calls \o p.calls)

\* returns the preview shape; an exception of the kernel leaves through it
generatePreview(f, k, a) ==
    LET check == getValidationErrors(f)
    IN  IF check.errors # <<>>
        THEN XResult(f, NullShape, NoVector, check.calls)
        ELSE
        LET p == IF f.parameters_.type = "SYMMETRIC"
                 THEN performSymmetricExtrude(f, k, a)
                 ELSE performBlindExtrude(f, k, a)
        IN  XResult(f, p.shape, p.vector, check.calls \o p.calls)

----------------------------------------------------------------------------
(* OCCTEngine: the four registries of one session and the operations on    *)
(* them.  A registry is a function from identifiers to entries.            *)

EmptyMap == <<>>

Put(m, k, v) == [x \in (DOMAIN m) \cup {k} |-> IF x = k THEN v ELSE m[x]]

NewEngine ==
    [alive |-> TRUE, shapes_ |-> EmptyMap, sketch_planes_ |-> EmptyMap,
     sketches_ |-> EmptyMap, extrude_features_ |-> EmptyMap]

\* ~OCCTEngine: clearAll, then the object is gone
Destroyed ==
    [alive |-> FALSE, shapes_ |-> EmptyMap, sketch_planes_ |-> EmptyMap,
     sketches_ |-> EmptyMap, extrude_features_ |-> EmptyMap]

EngineResult(e, r) == [engine |-> e, ret |-> r]

\* SketchPlane::SketchPlane(type, origin): the identifier and the normal
\* depend on the type alone
SketchPlane(plane_type, origin) ==
    [plane_id |-> <<plane_type \o "_Plane">>,
     origin |-> origin,
     normal |-> IF plane_type = "XY" THEN Vec3(0, 0, 1)
                ELSE IF plane_type = "XZ" THEN Vec3(0, 1, 0)
                ELSE Vec3(1, 0, 0)]

\* Sketch::Sketch(plane): the identifier is "Sketch_" and the clock second
NewSketch(plane, t) ==
    [sketch_id |-> <<"Sketch", t>>, plane |-> plane, elements |-> <<>>]

sketchExists(e, sketch_id) == sketch_id \in DOMAIN e.sketches_

planeExists(e, plane_id) == plane_id \in DOMAIN e.sketch_planes_

createSketchPlane(e, plane_type, origin) ==
    IF plane_type \in {"XY", "XZ", "YZ"}
    THEN LET plane == SketchPlane(plane_type, origin)
         IN  EngineResult([e EXCEPT !.sketch_planes_ =
                                Put(e.sketch_planes_, plane.plane_id, plane)],
                          plane.plane_id)
    ELSE EngineResult(e, NoId)

createSketch(e, plane_id, t) ==
    IF ~planeExists(e, plane_id) THEN EngineResult(e, NoId)
    ELSE LET sketch == NewSketch(e.sketch_planes_[plane_id], t)
         IN  EngineResult([e EXCEPT !.sketches_ =
                                Put(e.sketches_, sketch.sketch_id, sketch)],
                          sketch.sketch_id)

\* the common shape of the add*ToSketch operations: r is what the Sketch
\* operation does to the element sequence; an exception of the kernel is
\* caught and the empty identifier returned
AddToSketch(e, sketch_id, r) ==
    IF r.threw THEN EngineResult(e, NoId)
    ELSE EngineResult([e EXCEPT !.sketches_[sketch_id].elements = r.elements],
                      r.ret)

addLineToSketch(e, sketch_id, x1, y1, x2, y2) ==
    IF ~sketchExists(e, sketch_id) THEN EngineResult(e, NoId)
    ELSE AddToSketch(e, sketch_id,
             addLine(e.sketches_[sketch_id].elements, <<x1, y1>>, <<x2, y2>>))

addCircleToSketch(e, sketch_id, center_x, center_y, radius) ==
    IF ~sketchExists(e, sketch_id) THEN EngineResult(e, NoId)
    ELSE AddToSketch(e, sketch_id,
             addCircle(e.sketches_[sketch_id].elements,
                       <<center_x, center_y>>, radius))

addRectangleToSketch(e, sketch_id, x, y, width, height) ==
    IF ~sketchExists(e, sketch_id) THEN EngineResult(e, NoId)
    ELSE AddToSketch(e, sketch_id,
             addRectangle(e.sketches_[sketch_id].elements, <<x, y>>,
                          width, height))

addFilletToSketch(e, sketch_id, element1_id, element2_id, radius) ==
    IF ~sketchExists(e, sketch_id) THEN EngineResult(e, NoId)
    ELSE AddToSketch(e, sketch_id,
             addFillet(e.sketches_[sketch_id].elements,
                       element1_id, element2_id, radius))

\* what the kernel makes of a sketch or element: the wire it builds, whether
\* a face comes out of it, what the prism builder does, what the analyzer
\* says of the solid
Kernel(wire, face_ok, prism, analyzer) ==
    [wire |-> wire, face_ok |-> face_ok, prism |-> prism, analyzer |-> analyzer]

\* the tail of both extrude operations: execute the feature, and store it
\* and its shape under the feature's identifier when that succeeds
ExecuteAndStore(e, f, t, kern) ==
    LET r == execute(f, kern.prism, kern.analyzer)
        feature_id == <<"Extrude", t>>
    IN  IF ~r.ret THEN EngineResult(e, NoId)
        ELSE EngineResult(
                 [e EXCEPT !.extrude_features_ =
                               Put(e.extrude_features_, feature_id, r.feature),
                           !.shapes_ =
                               Put(e.shapes_, feature_id, r.feature.result_shape_)],
                 feature_id)

extrudeSketch(e, sketch_id, distance, t, kern) ==
    IF ~sketchExists(e, sketch_id) THEN EngineResult(e, NoId)
    ELSE
    LET sketch == e.sketches_[sketch_id]
        base == [kind |-> "sketch", empty |-> sketch.elements = <<>>,
                 wire |-> kern.wire,
                 face_ok |-> kern.wire = "valid" /\ kern.face_ok,
                 has_plane |-> TRUE, normal |-> sketch.plane.normal]
    IN  ExecuteAndStore(e, ExtrudeFeature(base, ExtrudeParameters(distance)),
                        t, kern)

\* Sketch::createFaceFromElement: the first element carrying the identifier
FirstElement(elems, element_id) ==
    LET hits == {i \in 1..Len(elems) : elems[i].id = element_id}
    IN  IF hits = {} THEN 0 ELSE CHOOSE i \in hits : \A j \in hits : i <= j

\* extrudeSketchElement that takes the first element of the sketch when the
\* named one is missing
extrudeSketchElement_anyElement(e, sketch_id, element_id, distance, t, kern) ==
    IF ~sketchExists(e, sketch_id) THEN EngineResult(e, NoId)
    ELSE
    LET sketch == e.sketches_[sketch_id]
        base == [kind |-> "face", empty |-> FALSE, wire |-> kern.wire,
                 face_ok |-> TRUE, has_plane |-> TRUE,
                 normal |-> sketch.plane.normal]
    IN  IF sketch.elements = <<>> \/ kern.wire = "null" \/ ~kern.face_ok
        THEN EngineResult(e, NoId)
        ELSE ExecuteAndStore(e, ExtrudeFeature(base, ExtrudeParameters(distance)),
                             t, kern)

extrudeSketchElement(e, sketch_id, element_id, distance, t, kern) ==
    IF ~sketchExists(e, sketch_id) THEN EngineResult(e, NoId)
    ELSE
    LET sketch == e.sketches_[sketch_id]
        found == FirstElement(sketch.elements, element_id) # 0
        base == [kind |-> "face", empty |-> FALSE, wire |-> kern.wire,
                 face_ok |-> TRUE, has_plane |-> TRUE,
                 normal |-> sketch.plane.normal]
    IN  IF ~found \/ kern.wire = "null" \/ ~kern.face_ok
        THEN EngineResult(e, NoId)
        ELSE ExecuteAndStore(e, ExtrudeFeature(base, ExtrudeParameters(distance)),
                             t, kern)

\* what the kernel makes of a boolean operation: a solid the analyzer
\* accepts, a null shape, a shape the analyzer rejects, or Standard_Failure
BooleanOutcomes == {"valid", "null", "invalid", "throw"}

shapeExists(e, shape_id) == shape_id \in DOMAIN e.shapes_

\* the shape the boolean builder hands back; valid is what validateShape
\* says of it
BooleanShape(b) ==
    IF b = "null" THEN NullShape ELSE Prism(NoVector, b = "valid")

unionShapes_storesBeforeValidating(e, shape1_id, shape2_id, result_id, b) ==
    IF ~shapeExists(e, shape1_id) \/ ~shapeExists(e, shape2_id)
    THEN EngineResult(e, FALSE)
    ELSE IF b = "throw" THEN EngineResult(e, FALSE)
    ELSE EngineResult([e EXCEPT !.shapes_ = Put(e.shapes_, result_id,
                                                BooleanShape(b))],
                      ~BooleanShape(b).isNull /\ BooleanShape(b).valid)

unionShapes(e, shape1_id, shape2_id, result_id, b) ==
    IF ~shapeExists(e, shape1_id) \/ ~shapeExists(e, shape2_id)
    THEN EngineResult(e, FALSE)
    ELSE IF b = "throw" THEN EngineResult(e, FALSE)
    ELSE LET result == BooleanShape(b)
         IN  IF result.isNull \/ ~result.valid THEN EngineResult(e, FALSE)
             ELSE EngineResult([e EXCEPT !.shapes_ =
                                    Put(e.shapes_, result_id, result)], TRUE)

cutShapes(e, shape1_id, shape2_id, result_id, b) ==
    IF ~shapeExists(e, shape1_id) \/ ~shapeExists(e, shape2_id)
    THEN EngineResult(e, FALSE)
    ELSE IF b = "throw" THEN EngineResult(e, FALSE)
    ELSE LET result == BooleanShape(b)
         IN  IF result.isNull \/ ~result.valid THEN EngineResult(e, FALSE)
             ELSE EngineResult([e EXCEPT !.shapes_ =
                                    Put(e.shapes_, result_id, result)], TRUE)

intersectShapes(e, shape1_id, shape2_id, result_id, b) ==
    IF ~shapeExists(e, shape1_id) \/ ~shapeExists(e, shape2_id)
    THEN EngineResult(e, FALSE)
    ELSE IF b = "throw" THEN EngineResult(e, FALSE)
    ELSE LET result == BooleanShape(b)
         IN  IF result.isNull \/ ~result.valid THEN EngineResult(e, FALSE)
             ELSE EngineResult([e EXCEPT !.shapes_ =
                                    Put(e.shapes_, result_id, result)], TRUE)

----------------------------------------------------------------------------
(* CADController: the request handlers that add to a sketch.  A request    *)
(* is a record of the fields that were parsed out of its body.             *)

handleAddSketchElement(e, rq) ==
    IF rq.sketch_id = NoId \/ rq.element_type = ""
    THEN EngineResult(e, NoId)
    ELSE IF rq.element_type = "line"
    THEN addLineToSketch(e, rq.sketch_id, rq.p[1], rq.p[2], rq.p[3], rq.p[4])
    ELSE IF rq.element_type = "circle"
    THEN addCircleToSketch(e, rq.sketch_id, rq.p[1], rq.p[2], rq.p[3])
    ELSE IF rq.element_type = "rectangle"
    THEN addRectangleToSketch(e, rq.sketch_id, rq.p[1], rq.p[2], rq.p[3], rq.p[4])
    ELSE EngineResult(e, NoId)

handleAddFillet(e, rq) ==
    IF rq.sketch_id = NoId \/ rq.element1_id = NoId \/ rq.element2_id = NoId
    THEN EngineResult(e, NoId)
    ELSE IF rq.radius <= 0
    THEN EngineResult(e, NoId)
    ELSE addFilletToSketch(e, rq.sketch_id, rq.element1_id, rq.element2_id,
                           rq.radius)

\* handleBooleanOperation: the result is named "result_" and the clock
\* second; an operation type that is none of the three reports failure
handleBooleanOperation(e, rq, t, b) ==
    IF rq.operation_type = "" \/ rq.target_id = NoId \/ rq.tool_id = NoId
    THEN EngineResult(e, FALSE)
    ELSE LET result_id == <<"result", t>>
         IN  IF rq.operation_type = "union"
             THEN unionShapes(e, rq.target_id, rq.tool_id, result_id, b)
             ELSE IF rq.operation_type = "cut"
             THEN cutShapes(e, rq.target_id, rq.tool_id, result_id, b)
             ELSE IF rq.operation_type = "intersect"
             THEN intersectShapes(e, rq.target_id, rq.tool_id, result_id, b)
             ELSE EngineResult(e, FALSE)

----------------------------------------------------------------------------
(* SessionManager and the request threads of the controller.               *)

NumThreads == 2

Threads == 1..NumThreads

SessionIds == {"A", "B"}

\* a thread that is in none of the calls below
NoSession == ""

\* nullptr
NullEngine == 0

\* the record of the last finished call
Finished(t, op, r) == [thread |-> t, op |-> op, ret |-> r]

Erase(m, k) == [x \in (DOMAIN m) \ {k} |-> m[x]]

\* the registry before the first request
RegistryIdle ==
    /\ sessions_ = EmptyMap
    /\ sessions_mutex_ = 0
    /\ engines = <<>>
    /\ pc = [t \in Threads |-> "idle"]
    /\ sid = [t \in Threads |-> NoSession]
    /\ engine_ptr = [t \in Threads |-> NullEngine]
    /\ last = Finished(0, "", NoId)
    /\ now = 1
    /\ issued = <<>>
    /\ cleaned = {}
    /\ called_unknown = {}
    /\ use_after_free = FALSE

----------------------------------------------------------------------------
(* The extrude feature as a state machine.                                 *)

\* distances offered, in whole units
DistanceInputs == {0, 2, 5}

\* <<distance1, distance2>> offered to setSymmetricDistances, in whole units
SymmetricInputs == {<<2, 5>>, <<5, 2>>, <<2, 2>>, <<0, 2>>}

DirectionInputs == {Vec3(0, 0, 0), Vec3(0, 0, 1), Vec3(1, 0, 0)}

NormalInputs == {Vec3(0, 0, 1), Vec3(0, 1, 0)}

ExtrudeTypes == {"BLIND", "THROUGH_ALL", "TO_SURFACE", "SYMMETRIC"}

PrismOutcomes == {"done", "notdone", "throw"}

\* what a feature can be built on: a sketch (empty, or with a null, invalid
\* or valid wire), a face of a sketch element, or a null face
BaseInputs ==
    {[kind |-> "sketch", empty |-> TRUE, wire |-> "null", face_ok |-> FALSE,
      has_plane |-> TRUE, normal |-> n] : n \in NormalInputs}
    \cup
    {[kind |-> "sketch", empty |-> FALSE, wire |-> w, face_ok |-> (w = "valid"),
      has_plane |-> TRUE, normal |-> n] :
        w \in {"null", "invalid", "valid"}, n \in NormalInputs}
    \cup
    {[kind |-> "sketch", empty |-> FALSE, wire |-> "valid", face_ok |-> FALSE,
      has_plane |-> TRUE, normal |-> Vec3(0, 0, 1)]}
    \cup
    {[kind |-> "face", empty |-> FALSE, wire |-> "valid", face_ok |-> TRUE,
      has_plane |-> TRUE, normal |-> n] : n \in NormalInputs}
    \cup
    {[kind |-> "nullface", empty |-> FALSE, wire |-> "null", face_ok |-> FALSE,
      has_plane |-> FALSE, normal |-> Vec3(0, 0, 1)]}

\* the feature before its first operation
ExtrudeIdle ==
    /\ feature = ExtrudeFeature(CHOOSE b \in BaseInputs : b.kind = "nullface",
                                ExtrudeParameters(Fx(2)))
    /\ xcall = Call("ExtrudeFeature", <<>>)
    /\ xret = FALSE
    /\ prism_vector = NoVector
    /\ kernel_calls = <<>>

ExtrudeInit ==
    /\ SketchIdle
    /\ RegistryIdle
    /\ \E base \in BaseInputs, dist \in DistanceInputs, rev \in BOOLEAN :
          feature = ExtrudeFeature(base,
                       [ExtrudeParameters(Fx(dist)) EXCEPT
                            !.reverse_direction = rev])
    /\ xcall = Call("ExtrudeFeature", <<>>)
    /\ xret = FALSE
    /\ prism_vector = NoVector
    /\ kernel_calls = <<>>

Setter(op, f) ==
    /\ feature' = f
    /\ xcall' = Call(op, <<>>)
    /\ xret' = FALSE
    /\ prism_vector' = NoVector
    /\ kernel_calls' = <<>>
    /\ UNCHANGED <<sketchVars, registryVars>>

XReturns(op, r) ==
    /\ feature' = r.feature
    /\ xcall' = Call(op, <<>>)
    /\ xret' = r.ret
    /\ prism_vector' = r.vector
    /\ kernel_calls' = r.calls
    /\ UNCHANGED <<sketchVars, registryVars>>

SetDistance ==
    \E d \in DistanceInputs :
        Setter("setDistance", [feature EXCEPT !.parameters_.distance = Fx(d)])

SetDirection ==
    \E d \in DirectionInputs :
        Setter("setDirection", [feature EXCEPT !.parameters_.direction = d])

SetExtrudeType ==
    \E t \in ExtrudeTypes :
        Setter("setExtrudeType", [feature EXCEPT !.parameters_.type = t])

SetSymmetricDistances ==
    \E d \in SymmetricInputs :
        Setter("setSymmetricDistances",
               [feature EXCEPT !.parameters_.distance1 = Fx(d[1]),
                               !.parameters_.distance2 = Fx(d[2])])

Execute ==
    \E k \in PrismOutcomes, a \in BOOLEAN :
        XReturns("execute", execute(feature, k, a))

Regenerate ==
    \E k \in PrismOutcomes, a \in BOOLEAN :
        XReturns("regenerate", execute(feature, k, a))

GeneratePreview ==
    \E k \in PrismOutcomes, a \in BOOLEAN :
        XReturns("generatePreview", generatePreview(feature, k, a))

ExtrudeNext ==
    \/ SetDistance
    \/ SetDirection
    \/ SetExtrudeType
    \/ SetSymmetricDistances
    \/ Execute
    \/ Regenerate
    \/ GeneratePreview

ExtrudeSpec == ExtrudeInit /\ [][ExtrudeNext]_vars

\* C10: for a Symmetric extrude with distance1 > 0 and distance2 > 0 the
\* vector handed to the prism construction has length distance1 + distance2.
C10_SymmetricLength ==
    (/\ xcall.op = "execute"
     /\ feature.parameters_.type = "SYMMETRIC"
     /\ feature.parameters_.distance1 > 0
     /\ feature.parameters_.distance2 > 0
     /\ prism_vector # NoVector)
    => Magnitude3(prism_vector)
         = feature.parameters_.distance1 + feature.parameters_.distance2

\* what the code hands over: the direction scaled by distance1 - distance2
C10_CodeHandsDifference ==
    (/\ xcall.op = "execute"
     /\ feature.parameters_.type = "SYMMETRIC"
     /\ prism_vector # NoVector)
    => prism_vector
         = Scale3(calculateExtrudeDirection(feature),
                  feature.parameters_.distance1 - feature.parameters_.distance2)


\* the operations that end in a perform* function
ExtrudeRuns == {"execute", "regenerate", "generatePreview"}

\* the last operation handed a vector to the kernel
HandedVector == xcall.op \in ExtrudeRuns /\ prism_vector # NoVector

\* C11: for a Blind extrude the vector handed to the kernel is
\* direction * distance when reverse_direction is false and exactly the
\* negation of that when it is true, all other parameters being equal.
C11_ReverseNegates ==
    (HandedVector /\ feature.parameters_.type = "BLIND")
        => LET forward == Scale3(calculateExtrudeDirection(feature),
                                 feature.parameters_.distance)
               flipped == [feature EXCEPT !.parameters_.reverse_direction = ~@]
           IN  /\ prism_vector = IF feature.parameters_.reverse_direction
                                  THEN Reverse3(forward) ELSE forward
               /\ \A k \in PrismOutcomes, a \in BOOLEAN :
                     performBlindExtrude(flipped, k, a).vector
                         = Reverse3(prism_vector)

\* a reversed Blind extrude of distance 5 along +Z went down to the kernel
C11_Witness_ReversedBlind ==
    /\ HandedVector
    /\ feature.parameters_.type = "BLIND"
    /\ feature.parameters_.reverse_direction
    /\ prism_vector = <<0, 0, -Fx(5)>>


\* the direction the specification resolves: the explicit parameter when
\* it is not degenerate, the plane normal otherwise
ResolvedDirection(f) ==
    IF ~BelowPow10(Magnitude3(f.parameters_.direction), DirEpsExp)
    THEN f.parameters_.direction
    ELSE calculateExtrudeDirection(f)

\* C12: the direction execute() and generatePreview() use is the explicit
\* direction parameter whenever that is not degenerate, and the plane
\* normal only otherwise.  (A direction other than the default (0,0,1) of
\* ExtrudeParameters has been supplied through setDirection.)
C12_ExplicitDirectionUsed ==
    (HandedVector /\ feature.parameters_.type = "BLIND"
                  /\ ~feature.parameters_.reverse_direction
                  /\ feature.parameters_.direction # Vec3(0, 0, 1))
        => prism_vector = Scale3(ResolvedDirection(feature),
                                 feature.parameters_.distance)

\* what the code does: the plane normal, whatever the parameter says
C12_CodeUsesPlaneNormal ==
    (HandedVector /\ feature.parameters_.type = "BLIND"
                  /\ ~feature.parameters_.reverse_direction)
        => prism_vector = Scale3(feature.base.normal,
                                 feature.parameters_.distance)


\* C13: canExtrude() is true exactly when a base sketch or face exists, the
\* base sketch (if any) is valid, Blind has distance > 0, Symmetric has
\* distance1 > 0 and distance2 > 0, and the resolved direction (the
\* explicit parameter if not degenerate, else the plane normal) is not
\* degenerate; a degenerate explicit direction alone does not fail it.
C13_CanExtrudeExactly ==
    canExtrude(feature)
        <=> /\ HasBaseSketch(feature) \/ ~FaceToExtrudeIsNull(feature)
            /\ HasBaseSketch(feature) => SketchIsValid(feature.base).valid
            /\ feature.parameters_.type = "BLIND"
                  => feature.parameters_.distance > 0
            /\ feature.parameters_.type = "SYMMETRIC"
                  => /\ feature.parameters_.distance1 > 0
                     /\ feature.parameters_.distance2 > 0
            /\ ~BelowPow10(Magnitude3(ResolvedDirection(feature)), DirEpsExp)

\* what the code tests last: the magnitude of the parameter itself
C13_CodeTestsParameter ==
    canExtrude(feature)
        <=> /\ HasBaseSketch(feature) \/ ~FaceToExtrudeIsNull(feature)
            /\ HasBaseSketch(feature) => SketchIsValid(feature.base).valid
            /\ feature.parameters_.type = "BLIND"
                  => feature.parameters_.distance > 0
            /\ feature.parameters_.type = "SYMMETRIC"
                  => /\ feature.parameters_.distance1 > 0
                     /\ feature.parameters_.distance2 > 0
            /\ ~BelowPow10(Magnitude3(feature.parameters_.direction), DirEpsExp)


\* execute() or regenerate() has just run on a Blind feature of distance <= 0
BlindNonPositiveExecuted ==
    /\ xcall.op \in {"execute", "regenerate"}
    /\ feature.parameters_.type = "BLIND"
    /\ feature.parameters_.distance <= 0

\* C14: execute() on a Blind feature with distance <= 0 returns false and
\* leaves isValid() false, and makes no geometry-kernel call (edge, wire,
\* face, validity analysis, prism) before that failure is returned.
C14_FailsBeforeKernel ==
    BlindNonPositiveExecuted
        => /\ xret = FALSE
           /\ ~feature.is_valid_
           /\ kernel_calls = <<>>

\* what the code keeps of it: the failure, and no prism
C14_CodeFailsWithoutPrism ==
    BlindNonPositiveExecuted
        => /\ xret = FALSE
           /\ ~feature.is_valid_
           /\ \A n \in 1..Len(kernel_calls) :
                 kernel_calls[n] \in {"createWire", "BRepCheck_Analyzer"}


\* execute() of f gives what execute() of the same feature as Blind gives:
\* validation, return value, validity flag, vector
SameOutcomeAsBlind(f) ==
    LET blind == [f EXCEPT !.parameters_.type = "BLIND"]
    IN  /\ canExtrude(f) = canExtrude(blind)
        /\ \A k \in PrismOutcomes, a \in BOOLEAN :
              LET here == execute(f, k, a)
                  there == execute(blind, k, a)
              IN  /\ here.ret = there.ret
                  /\ here.feature.is_valid_ = there.feature.is_valid_
                  /\ here.vector = there.vector

\* C15: for every base and every parameter record, execute() with type
\* ThroughAll or ToSurface has the outcome of execute() with type Blind
\* and the same other parameters.
C15_FallbackEqualsBlind ==
    feature.parameters_.type \in {"THROUGH_ALL", "TO_SURFACE"}
        => SameOutcomeAsBlind(feature)

\* what the code gives: the same outcome when the distance is positive
C15_CodeEqualsBlindForPositiveDistance ==
    (feature.parameters_.type \in {"THROUGH_ALL", "TO_SURFACE"}
        /\ feature.parameters_.distance > 0)
        => SameOutcomeAsBlind(feature)

----------------------------------------------------------------------------
(* The sketch as a state machine: one action per public Sketch operation.  *)

\* the longest element sequence explored
MaxElems == 3

\* segments offered to addLine, <<x1, y1, x2, y2>> in whole units
LineInputs ==
    { <<0, 0, 10, 0>>, <<10, 0, 10, 10>>, <<0, 0, 4, 3>>,
      <<10, 10, 0, 10>>, <<0, 0, 0, 0>> }

\* radii, widths and heights offered, in whole units
SizeInputs == {0, 2}

FilletRadii == {0, 1, 2}

\* identifiers offered to addFillet and removeElement
IdInputs == {ElementId("Line", n) : n \in 1..MaxElems} \cup {ElementId("Circle", 1)}

SketchInit ==
    /\ ExtrudeIdle
    /\ RegistryIdle
    /\ elements_ = <<>>
    /\ is_closed_ = FALSE
    /\ call = Call("Sketch", <<>>)
    /\ ret = NoId
    /\ threw = FALSE

Returns(op, args, r) ==
    /\ elements_' = r.elements
    /\ call' = Call(op, args)
    /\ ret' = r.ret
    /\ threw' = r.threw
    /\ UNCHANGED <<is_closed_, extrudeVars, registryVars>>

AddLine ==
    /\ Len(elements_) < MaxElems
    /\ \E l \in LineInputs :
          Returns("addLine", <<>>,
                  addLine(elements_, Pnt(l[1], l[2]), Pnt(l[3], l[4])))

AddCircle ==
    /\ Len(elements_) < MaxElems
    /\ \E radius \in SizeInputs :
          Returns("addCircle", <<>>,
                  addCircle(elements_, Pnt(5, 5), Fx(radius)))

AddRectangle ==
    /\ Len(elements_) < MaxElems
    /\ \E width \in SizeInputs :
          Returns("addRectangle", <<>>,
                  addRectangle(elements_, Pnt(0, 0), Fx(width), Fx(3)))

AddArc ==
    /\ Len(elements_) < MaxElems
    /\ Returns("addArc", <<>>,
               addArc(elements_, Pnt(0, 0), Pnt(2, 0), Pnt(0, 2), Fx(2)))

AddFillet ==
    /\ Len(elements_) < MaxElems
    /\ \E e1 \in IdInputs, e2 \in IdInputs, radius \in FilletRadii :
          Returns("addFillet", <<e1, e2, Fx(radius)>>,
                  addFillet(elements_, e1, e2, Fx(radius)))

RemoveElement ==
    \E id \in IdInputs :
        Returns("removeElement", <<>>,
                Result(removeElement(elements_, id), NoId, FALSE))

ClearAll ==
    /\ elements_' = <<>>
    /\ is_closed_' = FALSE
    /\ call' = Call("clearAll", <<>>)
    /\ ret' = NoId
    /\ threw' = FALSE
    /\ UNCHANGED <<extrudeVars, registryVars>>

SketchNext ==
    \/ AddLine
    \/ AddCircle
    \/ AddRectangle
    \/ AddArc
    \/ AddFillet
    \/ RemoveElement
    \/ ClearAll

SketchSpec == SketchInit /\ [][SketchNext]_vars

----------------------------------------------------------------------------
(* Properties of the sketch.                                               *)

\* tolerance of the geometric comparisons: 0.05 units
Tol == SCALE \div 20

Near(p, q) == Abs(p[1] - q[1]) <= Tol /\ Abs(p[2] - q[2]) <= Tol

\* |distance(p, q) - d| <= Tol
AtDistance(p, q, d) == Abs(Magnitude(VecSub(p, q)) - d) <= Tol

\* perpendicular distance of p from the infinite line through e is <= Tol
OnLineOf(p, e) ==
    Abs(Cross(VecSub(p, e.start_point), LineDir(e))) <= FxMul(Tol, Magnitude(LineDir(e)))

\* p projects between the two end points of the segment e
WithinSegment(p, e) ==
    LET t == Dot(VecSub(p, e.start_point), LineDir(e))
    IN  t >= -Tol /\ t <= Dot(LineDir(e), LineDir(e)) + Tol

\* C4: in every reachable state of a sketch no two elements carry the same
\* identifier.
C4_UniqueElementIds ==
    \A i, j \in 1..Len(elements_) :
        i # j => elements_[i].id # elements_[j].id

\* the cases in which addFillet has to fail: an identifier names no element,
\* an element is not a line, or the two lines are parallel
FilletMustFail(elems, e1, e2) ==
    LET i1 == FindElement(elems, e1)
        i2 == FindElement(elems, e2)
    IN  \/ i1 = 0
        \/ i2 = 0
        \/ elems[i1].type # "LINE"
        \/ elems[i2].type # "LINE"
        \/ BelowPow10(Abs(Cross(LineDir(elems[i1]), LineDir(elems[i2]))),
                      DetEpsExp)

\* C7: addFillet returns the empty identifier and leaves the element sequence
\* unchanged whenever an identifier names no element, both elements are
\* parallel lines, or one of them is no line.
C7_FilletFailsCleanly ==
    [][(call'.op = "addFillet"
          /\ FilletMustFail(elements_, call'.args[1], call'.args[2]))
       => (ret' = NoId /\ ~threw' /\ elements_' = elements_)]_vars

\* a failed addFillet on two distinct, proper, parallel lines
C7_Witness_ParallelLines ==
    /\ call.op = "addFillet"
    /\ ret = NoId
    /\ LET i1 == FindElement(elements_, call.args[1])
           i2 == FindElement(elements_, call.args[2])
       IN  /\ i1 # 0 /\ i2 # 0 /\ i1 # i2
           /\ elements_[i1].type = "LINE" /\ elements_[i2].type = "LINE"
           /\ CanNormalize(LineDir(elements_[i1]))
           /\ CanNormalize(LineDir(elements_[i2]))
           /\ Cross(LineDir(elements_[i1]), LineDir(elements_[i2])) = 0

\* the scenario of C8: line1 (0,0)-(10,0), line2 (10,0)-(10,10) and the
\* fillet of radius 2 between them, just stored
CornerScenario ==
    /\ Len(elements_) = 3
    /\ elements_[1].type = "LINE" /\ elements_[1].id = ElementId("Line", 1)
    /\ elements_[1].start_point = Pnt(0, 0) /\ elements_[1].end_point = Pnt(10, 0)
    /\ elements_[2].type = "LINE" /\ elements_[2].id = ElementId("Line", 2)
    /\ elements_[2].start_point = Pnt(10, 0) /\ elements_[2].end_point = Pnt(10, 10)
    /\ elements_[3].type = "FILLET"
    /\ elements_[3].referenced_elements = <<ElementId("Line", 1), ElementId("Line", 2)>>
    /\ elements_[3].parameters = <<Fx(2)>>

\* C8: in the corner scenario the stored fillet has its center at (8, 2) and
\* its tangent points at (8, 0) and (10, 2), both on the segments.
C8_CornerFillet ==
    CornerScenario =>
        /\ Near(elements_[3].center_point, Pnt(8, 2))
        /\ Near(elements_[3].start_point, Pnt(8, 0))
        /\ Near(elements_[3].end_point, Pnt(10, 2))
        /\ WithinSegment(elements_[3].start_point, elements_[1])
        /\ WithinSegment(elements_[3].end_point, elements_[2])

\* what the code stores in the corner scenario: center (12, 2), tangent
\* points (12, 0) and (10, 2)
C8_CodeStores ==
    CornerScenario =>
        /\ Near(elements_[3].center_point, Pnt(12, 2))
        /\ Near(elements_[3].start_point, Pnt(12, 0))
        /\ Near(elements_[3].end_point, Pnt(10, 2))

\* C9: for a fillet just stored by addFillet with radius > 0, both tangent
\* points are at distance radius from the center, the first on the infinite
\* line through element1 and the second on the one through element2.
C9_TangentPoints ==
    (call.op = "addFillet" /\ ret # NoId /\ call.args[3] > 0) =>
        LET f  == elements_[Len(elements_)]
            l1 == elements_[FindElement(elements_, call.args[1])]
            l2 == elements_[FindElement(elements_, call.args[2])]
        IN  /\ f.id = ret
            /\ f.type = "FILLET"
            /\ f.parameters = <<call.args[3]>>
            /\ AtDistance(f.start_point, f.center_point, call.args[3])
            /\ AtDistance(f.end_point, f.center_point, call.args[3])
            /\ OnLineOf(f.start_point, l1)
            /\ OnLineOf(f.end_point, l2)

\* a fillet of positive radius stored between two lines that are not
\* perpendicular
C9_Witness_ObliqueFillet ==
    /\ call.op = "addFillet" /\ ret # NoId /\ call.args[3] > 0
    /\ LET l1 == elements_[FindElement(elements_, call.args[1])]
           l2 == elements_[FindElement(elements_, call.args[2])]
       IN  Dot(LineDir(l1), LineDir(l2)) # 0

----------------------------------------------------------------------------
(* One session's engine as a state machine: the session of one id, whose   *)
(* requests are served one after the other while the clock advances.       *)

MaxClock == 2

MaxEngineElems == 3

PlaneTypeInputs == {"XY", "bad"}

OriginInputs == {Vec3(0, 0, 0)}

XYPlaneId == <<"XY_Plane">>

\* the sketch the element requests name
FirstSketch == <<"Sketch", 1>>

\* the bodies of the add-element requests
ElementRequests ==
    {[sketch_id |-> FirstSketch, element_type |-> "line",
      p |-> <<Fx(0), Fx(0), Fx(10), Fx(0)>>],
     [sketch_id |-> FirstSketch, element_type |-> "line",
      p |-> <<Fx(10), Fx(0), Fx(10), Fx(10)>>],
     [sketch_id |-> FirstSketch, element_type |-> "circle",
      p |-> <<Fx(0), Fx(0), Fx(0)>>],
     [sketch_id |-> FirstSketch, element_type |-> "rectangle",
      p |-> <<Fx(0), Fx(0), Fx(2), Fx(-1)>>],
     [sketch_id |-> FirstSketch, element_type |-> "polygon", p |-> <<>>]}

\* the bodies of the add-fillet requests
FilletRequests ==
    {[sketch_id |-> FirstSketch, element1_id |-> ElementId("Line", 1),
      element2_id |-> ElementId("Line", 2), radius |-> Fx(r)] : r \in {0, 1}}

KernelInputs ==
    {Kernel("valid", TRUE, "done", TRUE),
     Kernel("valid", TRUE, "notdone", TRUE),
     Kernel("valid", TRUE, "throw", TRUE)}

ExtrudeDistances == {Fx(0), Fx(5)}

\* the bodies of the boolean requests: the shape of the first second
\* against itself or against the shape of the second one
BooleanRequests ==
    {[operation_type |-> "union", target_id |-> <<"Extrude", 1>>,
      tool_id |-> <<"Extrude", 1>>],
     [operation_type |-> "cut", target_id |-> <<"Extrude", 1>>,
      tool_id |-> <<"Extrude", 2>>],
     [operation_type |-> "intersect", target_id |-> <<"Extrude", 1>>,
      tool_id |-> <<"Extrude", 2>>]}

\* the engine operation a boolean request ends in
BooleanOp(operation_type) ==
    IF operation_type = "union" THEN "unionShapes"
    ELSE IF operation_type = "cut" THEN "cutShapes"
    ELSE "intersectShapes"

CreateOps ==
    {"createSketchPlane", "createSketch", "extrudeSketch", "extrudeSketchElement"}

\* the registry a create operation stores into
RegistryOf(op) ==
    IF op = "createSketchPlane" THEN "sketch_planes_"
    ELSE IF op = "createSketch" THEN "sketches_"
    ELSE "extrude_features_"

\* the identifiers an engine's create operations have returned so far
Issue(iss, i, op, r) ==
    IF op \in CreateOps /\ r # NoId
    THEN [iss EXCEPT ![i] = @ \cup {<<RegistryOf(op), r>>}]
    ELSE iss

\* the session "A" with its engine, a request thread holding it
EngineInit ==
    /\ SketchIdle
    /\ ExtrudeIdle
    /\ sessions_ = Put(EmptyMap, "A", 1)
    /\ sessions_mutex_ = 0
    /\ engines = <<NewEngine>>
    /\ pc = [t \in Threads |-> IF t = 1 THEN "have_engine" ELSE "idle"]
    /\ sid = [t \in Threads |-> IF t = 1 THEN "A" ELSE NoSession]
    /\ engine_ptr = [t \in Threads |-> IF t = 1 THEN 1 ELSE NullEngine]
    /\ last = Finished(0, "", NoId)
    /\ now = 1
    /\ issued = <<{}>>
    /\ cleaned = {}
    /\ called_unknown = {}
    /\ use_after_free = FALSE

\* the end of an engine operation of the session
EngineReturns(op, r) ==
    /\ engines' = [engines EXCEPT ![1] = r.engine]
    /\ last' = Finished(1, op, r.ret)
    /\ issued' = Issue(issued, 1, op, r.ret)
    /\ UNCHANGED <<sessions_, sessions_mutex_, pc, sid, engine_ptr, now,
                   cleaned, called_unknown, use_after_free,
                   sketchVars, extrudeVars>>

CreateSketchPlane ==
    \E plane_type \in PlaneTypeInputs, origin \in OriginInputs :
        EngineReturns("createSketchPlane",
                      createSketchPlane(engines[1], plane_type, origin))

CreateSketch ==
    \E plane_id \in {XYPlaneId, <<"XZ_Plane">>} :
        EngineReturns("createSketch", createSketch(engines[1], plane_id, now))

HandleAddSketchElement ==
    \E rq \in ElementRequests :
        /\ sketchExists(engines[1], rq.sketch_id)
              => Len(engines[1].sketches_[rq.sketch_id].elements) < MaxEngineElems
        /\ EngineReturns("handleAddSketchElement",
                         handleAddSketchElement(engines[1], rq))

HandleAddFillet ==
    \E rq \in FilletRequests :
        /\ sketchExists(engines[1], rq.sketch_id)
              => Len(engines[1].sketches_[rq.sketch_id].elements) < MaxEngineElems
        /\ EngineReturns("handleAddFillet", handleAddFillet(engines[1], rq))

ExtrudeSketch ==
    \E sketch_id \in {FirstSketch},
       distance \in ExtrudeDistances, kern \in KernelInputs :
        EngineReturns("extrudeSketch",
                      extrudeSketch(engines[1], sketch_id, distance, now, kern))

ExtrudeSketchElement ==
    \E element_id \in {ElementId("Line", 1), ElementId("Circle", 1)},
       distance \in ExtrudeDistances, kern \in KernelInputs :
        EngineReturns("extrudeSketchElement",
                      extrudeSketchElement(engines[1], FirstSketch, element_id,
                                           distance, now, kern))

HandleBooleanOperation ==
    \E rq \in BooleanRequests, b \in BooleanOutcomes :
        EngineReturns(BooleanOp(rq.operation_type),
                      handleBooleanOperation(engines[1], rq, now, b))

RemoveShape ==
    \E shape_id \in DOMAIN engines[1].shapes_ :
        EngineReturns("removeShape",
                      EngineResult([engines[1] EXCEPT !.shapes_ = Erase(@, shape_id)],
                                   NoId))

\* a second of the clock passes
Tick ==
    /\ now < MaxClock
    /\ now' = now + 1
    /\ UNCHANGED <<sessions_, sessions_mutex_, engines, pc, sid, engine_ptr,
                   last, issued, cleaned, called_unknown, use_after_free,
                   sketchVars, extrudeVars>>

EngineNext ==
    \/ CreateSketchPlane
    \/ CreateSketch
    \/ HandleAddSketchElement
    \/ HandleAddFillet
    \/ ExtrudeSketch
    \/ ExtrudeSketchElement
    \/ HandleBooleanOperation
    \/ RemoveShape
    \/ Tick

EngineSpec == EngineInit /\ [][EngineNext]_vars

\* C5: within one session every successful create operation returns an
\* identifier that no earlier create of the same registry returned, those
\* of entries since removed included, and so replaces no entry of the
\* plane, sketch, feature or shape registry.
C5_CreateReturnsFreshId ==
    [][(now' = now /\ last'.op \in CreateOps /\ last'.ret # NoId)
          => /\ <<RegistryOf(last'.op), last'.ret>> \notin issued[1]
             /\ last'.ret \notin DOMAIN engines[1][RegistryOf(last'.op)]
             /\ RegistryOf(last'.op) = "extrude_features_"
                   => last'.ret \notin DOMAIN engines[1].shapes_]_vars

\* what the code does instead: the plane identifier is a function of the
\* plane type, sketch and feature identifiers of the clock second
C5_CodeNamesByTypeAndSecond ==
    /\ DOMAIN engines[1].sketch_planes_ \subseteq {XYPlaneId}
    /\ \A t \in 1..MaxClock :
          Cardinality({id \in DOMAIN engines[1].sketches_ : id[2] = t}) <= 1

\* C6: every radius, width and height stored in a sketch element of the
\* session is strictly positive.
C6_StoredDimensionsPositive ==
    \A i \in 1..Len(engines) : \A s \in DOMAIN engines[i].sketches_ :
        LET elems == engines[i].sketches_[s].elements
        IN  \A k \in 1..Len(elems) : \A j \in 1..Len(elems[k].parameters) :
                elems[k].parameters[j] > 0

\* the one check of the request surface: a fillet's radius
C6_CodeChecksFilletRadiusOnly ==
    \A i \in 1..Len(engines) : \A s \in DOMAIN engines[i].sketches_ :
        LET elems == engines[i].sketches_[s].elements
        IN  \A k \in 1..Len(elems) :
                elems[k].type = "FILLET" => elems[k].parameters[1] > 0


\* C16: extrudeSketch on a registered sketch that has zero elements returns
\* the empty identifier, and neither the feature registry nor the shape
\* registry gains an entry (whatever the distance and the kernel).
C16_EmptySketchNotExtruded ==
    \A i \in 1..Len(engines) : \A s \in DOMAIN engines[i].sketches_ :
        engines[i].sketches_[s].elements = <<>>
            => \A distance \in ExtrudeDistances, kern \in KernelInputs :
                  LET r == extrudeSketch(engines[i], s, distance, now, kern)
                  IN  /\ r.ret = NoId
                      /\ r.engine.extrude_features_ = engines[i].extrude_features_
                      /\ r.engine.shapes_ = engines[i].shapes_

\* extrudeSketch has just returned the empty identifier for the registered,
\* still empty first sketch
C16_Witness_EmptySketch ==
    /\ last.op = "extrudeSketch"
    /\ last.ret = NoId
    /\ sketchExists(engines[1], FirstSketch)
    /\ engines[1].sketches_[FirstSketch].elements = <<>>

\* the operations of a session that report failure by the empty identifier
\* (the add*ToSketch operations are reached through their request handlers)
IdOps ==
    {"createSketchPlane", "createSketch", "handleAddSketchElement",
     "handleAddFillet", "extrudeSketch", "extrudeSketchElement"}

\* the operations of a session that report failure by false
BoolOps == {"unionShapes", "cutShapes", "intersectShapes"}

\* the call recorded in l reported failure
ReportedFailure(l) ==
    \/ l.op \in IdOps /\ l.ret = NoId
    \/ l.op \in BoolOps /\ l.ret = FALSE

\* C17: every session operation that reports failure (the empty identifier
\* or false), a fault of the kernel included, leaves the shape, plane,
\* sketch and feature registries and every sketch's element sequence exactly
\* as they were before the call; the session being the same, every later
\* operation on it does what it would have done.
C17_FailureChangesNothing ==
    [][ReportedFailure(last') => engines' = engines]_vars

\* a boolean operation on two registered shapes has just reported failure
\* (the kernel threw, or built nothing the analyzer accepts) in a session
\* that holds a plane, a sketch with elements, a feature and a shape
C17_Witness_KernelFault ==
    /\ last.op = "cutShapes"
    /\ last.ret = FALSE
    /\ shapeExists(engines[1], <<"Extrude", 1>>)
    /\ shapeExists(engines[1], <<"Extrude", 2>>)
    /\ engines[1].extrude_features_ # EmptyMap
    /\ planeExists(engines[1], XYPlaneId)
    /\ sketchExists(engines[1], FirstSketch)
    /\ engines[1].sketches_[FirstSketch].elements # <<>>

\* plane, sketch, element and shape identifiers to try, registered or not
PlaneIdProbes == {XYPlaneId, <<"XZ_Plane">>, <<"Custom_Plane">>}

SketchIdProbes == {<<"Sketch", t>> : t \in 1..(MaxClock + 1)}

ElementIdProbes ==
    {ElementId(prefix, n) : prefix \in {"Line", "Circle", "Rectangle"},
                            n \in 1..2}

ShapeIdProbes == {<<"Extrude", 1>>, <<"Extrude", 2>>, <<"shape", 1000>>}

\* the identifiers of the elements of a sketch
ElementIdsOf(sketch) == {sketch.elements[k].id : k \in 1..Len(sketch.elements)}

\* C18: an operation that references an unknown identifier fails with an
\* explicit signal and creates nothing: createSketch with an unregistered
\* plane, the add line / circle / rectangle / fillet operations, extrudeSketch
\* and extrudeSketchElement with an unregistered sketch, and
\* extrudeSketchElement with an element that is not in the sketch, return
\* the empty identifier; a boolean operation with an unregistered operand
\* returns false; the session is as before in each case.
C18_UnknownIdFailsCleanly ==
    \A i \in 1..Len(engines) :
        LET e == engines[i]
            NoIdAndSame(r) == r.ret = NoId /\ r.engine = e
            FalseAndSame(r) == r.ret = FALSE /\ r.engine = e
        IN  /\ \A plane_id \in PlaneIdProbes \ DOMAIN e.sketch_planes_ :
                   NoIdAndSame(createSketch(e, plane_id, now))
            /\ \A sketch_id \in SketchIdProbes \ DOMAIN e.sketches_ :
                   /\ NoIdAndSame(addLineToSketch(e, sketch_id,
                                                  Fx(0), Fx(0), Fx(10), Fx(0)))
                   /\ NoIdAndSame(addCircleToSketch(e, sketch_id,
                                                    Fx(0), Fx(0), Fx(2)))
                   /\ NoIdAndSame(addRectangleToSketch(e, sketch_id,
                                                       Fx(0), Fx(0), Fx(2), Fx(1)))
                   /\ NoIdAndSame(addFilletToSketch(e, sketch_id,
                                                    ElementId("Line", 1),
                                                    ElementId("Line", 2), Fx(1)))
                   /\ \A distance \in ExtrudeDistances, kern \in KernelInputs :
                          /\ NoIdAndSame(extrudeSketch(e, sketch_id, distance,
                                                       now, kern))
                          /\ NoIdAndSame(extrudeSketchElement(
                                             e, sketch_id, ElementId("Line", 1),
                                             distance, now, kern))
            /\ \A sketch_id \in DOMAIN e.sketches_ :
                   \A element_id \in
                          ElementIdProbes \ ElementIdsOf(e.sketches_[sketch_id]),
                      distance \in ExtrudeDistances, kern \in KernelInputs :
                       NoIdAndSame(extrudeSketchElement(e, sketch_id, element_id,
                                                        distance, now, kern))
            /\ \A shape1_id \in ShapeIdProbes, shape2_id \in ShapeIdProbes,
                  b \in BooleanOutcomes :
                   (~shapeExists(e, shape1_id) \/ ~shapeExists(e, shape2_id))
                       => LET result_id == <<"result", now>>
                          IN  /\ FalseAndSame(unionShapes(e, shape1_id, shape2_id,
                                                          result_id, b))
                              /\ FalseAndSame(cutShapes(e, shape1_id, shape2_id,
                                                        result_id, b))
                              /\ FalseAndSame(intersectShapes(e, shape1_id,
                                                              shape2_id,
                                                              result_id, b))

\* extrudeSketchElement has just returned the empty identifier for an
\* element the registered, non-empty first sketch does not hold, in a session
\* that has a shape but not the second operand of a boolean request
C18_Witness_MissingElement ==
    /\ last.op = "extrudeSketchElement"
    /\ last.ret = NoId
    /\ sketchExists(engines[1], FirstSketch)
    /\ engines[1].sketches_[FirstSketch].elements # <<>>
    /\ ElementIdsOf(engines[1].sketches_[FirstSketch])
           \cap {ElementId("Line", 1), ElementId("Circle", 1)} = {}
    /\ shapeExists(engines[1], <<"Extrude", 1>>)
    /\ ~shapeExists(engines[1], <<"Extrude", 2>>)

----------------------------------------------------------------------------
(* The session registry under concurrent request threads.  A step is one   *)
(* thread taking the lock, or doing what it does while holding it (the     *)
(* lock_guard releases at the return), or using the engine it was given.   *)

MaxEngines == 2

MaxSessionElems == 1

\* where a thread reads or writes sessions_
CriticalPcs ==
    {"goc_find", "goc_create", "cs_erase", "ca_clear", "se_find", "gac_size"}

\* the requests the threads serve on the engine they were given
SessionRequests ==
    {[op |-> "createSketchPlane", plane_type |-> "XY", origin |-> Vec3(0, 0, 0)],
     [op |-> "createSketch", plane_id |-> XYPlaneId],
     [op |-> "handleAddSketchElement",
      body |-> [sketch_id |-> FirstSketch, element_type |-> "circle",
                p |-> <<Fx(0), Fx(0), Fx(2)>>]]}

\* the handler's call on the engine
Serve(e, rq, t) ==
    IF rq.op = "createSketchPlane"
    THEN createSketchPlane(e, rq.plane_type, rq.origin)
    ELSE IF rq.op = "createSketch" THEN createSketch(e, rq.plane_id, t)
    ELSE handleAddSketchElement(e, rq.body)

\* a call through an engine pointer with the registries shared by all engines
OnEngine_sharedRegistries(engs, p, e) ==
    [i \in DOMAIN engs |-> IF engs[i].alive THEN e ELSE engs[i]]

\* a call through an engine pointer changes the members of that instance
OnEngine(engs, p, e) == [engs EXCEPT ![p] = e]

\* ~unique_ptr<OCCTEngine> of the instances in gone
Destroy(engs, gone) ==
    [i \in DOMAIN engs |-> IF i \in gone THEN Destroyed ELSE engs[i]]

\* the threads holding one of the instances in gone
Holders(gone) ==
    {u \in Threads : pc[u] = "have_engine" /\ engine_ptr[u] \in gone}

Init ==
    /\ SketchIdle
    /\ ExtrudeIdle
    /\ RegistryIdle

\* a thread is back from its call, holding nothing
ThreadDone(t, op, r) ==
    /\ pc' = [pc EXCEPT ![t] = "idle"]
    /\ sid' = [sid EXCEPT ![t] = NoSession]
    /\ engine_ptr' = [engine_ptr EXCEPT ![t] = NullEngine]
    /\ last' = Finished(t, op, r)
    /\ called_unknown' = called_unknown \ {t}
    /\ UNCHANGED <<now, sketchVars, extrudeVars>>

\* a thread takes the lock at the start of op(id)
LockFor(t, id, at) ==
    /\ pc[t] = "idle"
    /\ sessions_mutex_ = 0
    /\ sessions_mutex_' = t
    /\ pc' = [pc EXCEPT ![t] = at]
    /\ sid' = [sid EXCEPT ![t] = id]
    /\ UNCHANGED <<sessions_, engines, engine_ptr, last, now, issued, cleaned,
                   called_unknown, use_after_free, sketchVars, extrudeVars>>

\* a request handler calls getOrCreateSession(id)
GetOrCreateCall(t) ==
    /\ pc[t] = "idle"
    /\ \E id \in SessionIds :
          /\ sid' = [sid EXCEPT ![t] = id]
          /\ called_unknown' = IF id \in DOMAIN sessions_
                               THEN called_unknown \ {t}
                               ELSE called_unknown \cup {t}
    /\ pc' = [pc EXCEPT ![t] = "goc_lock"]
    /\ UNCHANGED <<sessions_, sessions_mutex_, engines, engine_ptr, last, now,
                   issued, cleaned, use_after_free, sketchVars, extrudeVars>>

\* getOrCreateSession that goes on without the lock
GetOrCreateLock_noWait(t) ==
    /\ pc[t] = "goc_lock"
    /\ sessions_mutex_' = t
    /\ pc' = [pc EXCEPT ![t] = "goc_find"]
    /\ UNCHANGED <<sessions_, engines, sid, engine_ptr, last, now, issued,
                   cleaned, called_unknown, use_after_free,
                   sketchVars, extrudeVars>>

GetOrCreateLock(t) ==
    /\ pc[t] = "goc_lock"
    /\ sessions_mutex_ = 0
    /\ sessions_mutex_' = t
    /\ pc' = [pc EXCEPT ![t] = "goc_find"]
    /\ UNCHANGED <<sessions_, engines, sid, engine_ptr, last, now, issued,
                   cleaned, called_unknown, use_after_free,
                   sketchVars, extrudeVars>>

\* getOrCreateSession that skips the lookup
GetOrCreateFind_neverFinds(t) ==
    /\ pc[t] = "goc_find"
    /\ pc' = [pc EXCEPT ![t] = "goc_create"]
    /\ UNCHANGED <<sessions_, sessions_mutex_, engines, sid, engine_ptr,
                   last, now, issued, cleaned, called_unknown,
                   use_after_free, sketchVars, extrudeVars>>

GetOrCreateFind(t) ==
    /\ pc[t] = "goc_find"
    /\ IF sid[t] \in DOMAIN sessions_
       THEN /\ engine_ptr' = [engine_ptr EXCEPT ![t] = sessions_[sid[t]]]
            /\ last' = Finished(t, "getOrCreateSession", sessions_[sid[t]])
            /\ sessions_mutex_' = 0
            /\ pc' = [pc EXCEPT ![t] = "have_engine"]
       ELSE /\ pc' = [pc EXCEPT ![t] = "goc_create"]
            /\ UNCHANGED <<engine_ptr, last, sessions_mutex_>>
    /\ UNCHANGED <<sessions_, engines, sid, now, issued, cleaned,
                   called_unknown, use_after_free, sketchVars, extrudeVars>>

GetOrCreateCreate(t) ==
    /\ pc[t] = "goc_create"
    /\ \/ /\ Len(engines) < MaxEngines
          /\ LET replaced == IF sid[t] \in DOMAIN sessions_
                             THEN {sessions_[sid[t]]} ELSE {}
                 engine == Len(engines) + 1
             IN  /\ engines' = Append(Destroy(engines, replaced), NewEngine)
                 /\ issued' = Append(issued, {})
                 /\ sessions_' = Put(sessions_, sid[t], engine)
                 /\ engine_ptr' = [engine_ptr EXCEPT ![t] = engine]
                 /\ last' = Finished(t, "getOrCreateSession", engine)
          /\ pc' = [pc EXCEPT ![t] = "have_engine"]
          /\ UNCHANGED <<sid, called_unknown>>
       \/ \* the construction throws: caught, nullptr returned
          /\ pc' = [pc EXCEPT ![t] = "idle"]
          /\ sid' = [sid EXCEPT ![t] = NoSession]
          /\ last' = Finished(t, "getOrCreateSession", NullEngine)
          /\ called_unknown' = called_unknown \ {t}
          /\ UNCHANGED <<engines, issued, sessions_, engine_ptr>>
    /\ sessions_mutex_' = 0
    /\ UNCHANGED <<now, cleaned, use_after_free, sketchVars, extrudeVars>>

\* the handler's modeling call on the engine it holds
ModelOp(t) ==
    /\ pc[t] = "have_engine"
    /\ engines[engine_ptr[t]].alive
    /\ \E rq \in SessionRequests :
          LET e == engines[engine_ptr[t]]
              r == Serve(e, rq, now)
          IN  /\ (rq.op = "handleAddSketchElement"
                    /\ sketchExists(e, rq.body.sketch_id))
                    => Len(e.sketches_[rq.body.sketch_id].elements) < MaxSessionElems
              /\ engines' = OnEngine(engines, engine_ptr[t], r.engine)
              /\ issued' = Issue(issued, engine_ptr[t], rq.op, r.ret)
              /\ ThreadDone(t, rq.op, r.ret)
    /\ cleaned' = cleaned \ {t}
    /\ UNCHANGED <<sessions_, sessions_mutex_, use_after_free>>

\* the same call after the engine was destroyed: the write is lost, or it
\* lands in an engine that was allocated later, in the freed block
UseAfterFree(t) ==
    /\ pc[t] = "have_engine"
    /\ ~engines[engine_ptr[t]].alive
    /\ \E rq \in SessionRequests :
          /\ \/ UNCHANGED engines
             \/ \E j \in (engine_ptr[t] + 1)..Len(engines) :
                   /\ engines[j].alive
                   /\ engines' = OnEngine(engines, j,
                                          Serve(engines[j], rq, now).engine)
          /\ ThreadDone(t, rq.op, NoId)
    /\ use_after_free' = TRUE
    /\ cleaned' = cleaned \ {t}
    /\ UNCHANGED <<sessions_, sessions_mutex_, issued>>

CleanupSessionLock(t) == \E id \in SessionIds : LockFor(t, id, "cs_erase")

\* cleanupSession that clears the whole map
CleanupSessionErase_clearsAll(t) ==
    /\ pc[t] = "cs_erase"
    /\ LET gone == {sessions_[id] : id \in DOMAIN sessions_}
       IN  /\ engines' = Destroy(engines, gone)
           /\ cleaned' = cleaned \cup Holders(gone)
    /\ sessions_' = EmptyMap
    /\ sessions_mutex_' = 0
    /\ ThreadDone(t, "cleanupSession", NoId)
    /\ UNCHANGED <<issued, use_after_free>>

CleanupSessionErase(t) ==
    /\ pc[t] = "cs_erase"
    /\ LET gone == IF sid[t] \in DOMAIN sessions_
                   THEN {sessions_[sid[t]]} ELSE {}
       IN  /\ engines' = Destroy(engines, gone)
           /\ sessions_' = Erase(sessions_, sid[t])
           /\ cleaned' = cleaned \cup Holders(gone)
    /\ sessions_mutex_' = 0
    /\ ThreadDone(t, "cleanupSession", NoId)
    /\ UNCHANGED <<issued, use_after_free>>

CleanupAllLock(t) == LockFor(t, NoSession, "ca_clear")

CleanupAllClear(t) ==
    /\ pc[t] = "ca_clear"
    /\ LET gone == {sessions_[id] : id \in DOMAIN sessions_}
       IN  /\ engines' = Destroy(engines, gone)
           /\ cleaned' = cleaned \cup Holders(gone)
    /\ sessions_' = EmptyMap
    /\ sessions_mutex_' = 0
    /\ ThreadDone(t, "cleanupAllSessions", NoId)
    /\ UNCHANGED <<issued, use_after_free>>

SessionExistsLock(t) == \E id \in SessionIds : LockFor(t, id, "se_find")

\* sessionExists that drops the entry it finds
SessionExistsFind_erases(t) ==
    /\ pc[t] = "se_find"
    /\ sessions_mutex_' = 0
    /\ sessions_' = Erase(sessions_, sid[t])
    /\ ThreadDone(t, "sessionExists", sid[t] \in DOMAIN sessions_)
    /\ UNCHANGED <<engines, issued, cleaned, use_after_free>>

SessionExistsFind(t) ==
    /\ pc[t] = "se_find"
    /\ sessions_mutex_' = 0
    /\ ThreadDone(t, "sessionExists", sid[t] \in DOMAIN sessions_)
    /\ UNCHANGED <<sessions_, engines, issued, cleaned, use_after_free>>

\* sessions_.size()
ActiveCount(m) == Cardinality(DOMAIN m)

GetActiveCountLock(t) == LockFor(t, NoSession, "gac_size")

GetActiveCountSize(t) ==
    /\ pc[t] = "gac_size"
    /\ sessions_mutex_' = 0
    /\ ThreadDone(t, "getActiveCount", ActiveCount(sessions_))
    /\ UNCHANGED <<sessions_, engines, issued, cleaned, use_after_free>>

\* takes no lock and touches nothing
CleanupExpiredSessions(t) ==
    /\ pc[t] = "idle"
    /\ ThreadDone(t, "cleanupExpiredSessions", NoId)
    /\ UNCHANGED <<sessions_, sessions_mutex_, engines, issued, cleaned,
                   use_after_free>>

Next ==
    \E t \in Threads :
        \/ GetOrCreateCall(t)
        \/ GetOrCreateLock(t)
        \/ GetOrCreateFind(t)
        \/ GetOrCreateCreate(t)
        \/ ModelOp(t)
        \/ UseAfterFree(t)
        \/ CleanupSessionLock(t)
        \/ CleanupSessionErase(t)
        \/ CleanupAllLock(t)
        \/ CleanupAllClear(t)
        \/ SessionExistsLock(t)
        \/ SessionExistsFind(t)
        \/ GetActiveCountLock(t)
        \/ GetActiveCountSize(t)
        \/ CleanupExpiredSessions(t)

Spec == Init /\ [][Next]_vars

\* a thread holds the engine of its session, which no cleanup has taken
HoldsSession(t) == pc[t] = "have_engine" /\ t \notin cleaned

\* C1: as long as no cleanupSession(id) or cleanupAllSessions() came in
\* between, every getOrCreateSession(id) returned the same live instance,
\* the one registered under id, so all holders see one state.
C1_SameInstance ==
    \A t \in Threads :
        HoldsSession(t) =>
            /\ sid[t] \in DOMAIN sessions_
            /\ sessions_[sid[t]] = engine_ptr[t]
            /\ engines[engine_ptr[t]].alive
            /\ \A u \in Threads :
                  (HoldsSession(u) /\ sid[u] = sid[t])
                      => engines[engine_ptr[u]] = engines[engine_ptr[t]]

\* two threads hold the session of one id at once, and see in it the plane
\* and the sketch that earlier requests for that id registered
C1_Witness_SharedPlane ==
    \E t, u \in Threads :
        /\ t # u
        /\ HoldsSession(t) /\ HoldsSession(u)
        /\ sid[t] = sid[u]
        /\ DOMAIN engines[engine_ptr[u]].sketch_planes_ # {}
        /\ DOMAIN engines[engine_ptr[t]].sketches_ # {}

C3_MapOnlyUnderLock ==
    /\ \A t \in Threads : pc[t] \in CriticalPcs => sessions_mutex_ = t
    /\ \A i \in 1..Len(engines) :
          engines[i].alive <=> \E id \in DOMAIN sessions_ : sessions_[id] = i
    /\ \A a, b \in DOMAIN sessions_ : sessions_[a] = sessions_[b] => a = b
    /\ \A t, u \in Threads :
          (/\ HoldsSession(t) /\ HoldsSession(u)
           /\ sid[t] = sid[u]
           /\ {t, u} \subseteq called_unknown)
              => /\ engine_ptr[t] = engine_ptr[u]
                 /\ sessions_[sid[t]] = engine_ptr[t]

\* two threads called getOrCreateSession on the same unknown id, and both
\* are back with the one engine that was ever created
C3_Witness_RaceOnNewId ==
    /\ \A t \in Threads : HoldsSession(t) /\ t \in called_unknown
    /\ \A t, u \in Threads : sid[t] = sid[u] /\ engine_ptr[t] = engine_ptr[u]
    /\ Len(engines) = 1

\* thread t returns from the call whose last step it takes at pc value at
ReturnsFrom(t, at) == pc[t] = at /\ pc'[t] = "idle"

\* C19: cleanupSession(id) removes the session registered under id, if any,
\* and changes nothing else: every other id maps to the same instance, whose
\* state is unchanged, and getActiveCount() is one less when id was
\* registered and the same when it was not; cleanupAllSessions() leaves
\* getActiveCount() = 0 and sessionExists(x) = false for every x.
C19_CleanupRemovesOnlyItsSession ==
    [][\A t \in Threads :
          /\ ReturnsFrom(t, "cs_erase") =>
                 /\ DOMAIN sessions_' = DOMAIN sessions_ \ {sid[t]}
                 /\ \A x \in DOMAIN sessions_ \ {sid[t]} :
                        /\ sessions_'[x] = sessions_[x]
                        /\ engines'[sessions_'[x]] = engines[sessions_[x]]
                 /\ ActiveCount(sessions_') =
                        IF sid[t] \in DOMAIN sessions_
                        THEN ActiveCount(sessions_) - 1
                        ELSE ActiveCount(sessions_)
          /\ ReturnsFrom(t, "ca_clear") =>
                 /\ ActiveCount(sessions_') = 0
                 /\ \A x \in SessionIds : x \notin DOMAIN sessions_'
      ]_vars

\* cleanupSession has just removed one of two registered sessions: the other
\* is still registered, its engine alive and holding the plane a request
\* stored in it
C19_Witness_OtherSessionKept ==
    /\ last.op = "cleanupSession"
    /\ ActiveCount(sessions_) = 1
    /\ \E i \in 1..Len(engines) : ~engines[i].alive
    /\ \A x \in DOMAIN sessions_ :
           /\ engines[sessions_[x]].alive
           /\ planeExists(engines[sessions_[x]], XYPlaneId)

\* the engines of the ids created and not yet cleaned up: each created id
\* got an engine of its own, which lives until the id is cleaned up
CreatedNotCleaned == {i \in 1..Len(engines) : engines[i].alive}

\* C20: a session, once created, stays registered under its id (with the
\* same instance) until cleanupSession(id) or cleanupAllSessions() returns;
\* sessionExists, getActiveCount and cleanupExpiredSessions neither add nor
\* remove a session; and getActiveCount() returns the number of ids created
\* and not yet cleaned up.
C20_RegisteredUntilCleanup ==
    [][/\ \A id \in DOMAIN sessions_ :
             \/ id \in DOMAIN sessions_' /\ sessions_'[id] = sessions_[id]
             \/ \E t \in Threads :
                    \/ ReturnsFrom(t, "cs_erase") /\ sid[t] = id
                    \/ ReturnsFrom(t, "ca_clear")
       /\ \A t \in Threads :
             (ReturnsFrom(t, "se_find") \/ ReturnsFrom(t, "gac_size"))
                 => UNCHANGED <<sessions_, engines>>
       /\ last'.op = "cleanupExpiredSessions" => UNCHANGED <<sessions_, engines>>
       /\ \A t \in Threads :
             ReturnsFrom(t, "gac_size")
                 => /\ last'.op = "getActiveCount"
                    /\ last'.ret = Cardinality(CreatedNotCleaned)
      ]_vars

\* getActiveCount has just answered 1 after two ids were created and one of
\* them cleaned up
C20_Witness_CountAfterCleanup ==
    /\ last.op = "getActiveCount"
    /\ last.ret = 1
    /\ Len(engines) = 2
    /\ Cardinality(CreatedNotCleaned) = 1

----------------------------------------------------------------------------
(* SketchPlane: the coordinate system of a plane and the transformations   *)
(* between its 2D points and the 3D points of the model.                   *)

Dot3(a, b) == FxMul(a[1], b[1]) + FxMul(a[2], b[2]) + FxMul(a[3], b[3])

Cross3(a, b) ==
    <<FxMul(a[2], b[3]) - FxMul(a[3], b[2]),
      FxMul(a[3], b[1]) - FxMul(a[1], b[3]),
      FxMul(a[1], b[2]) - FxMul(a[2], b[1])>>

Sub3(a, b) == <<a[1] - b[1], a[2] - b[2], a[3] - b[3]>>

\* gp_Dir(x, y, z): the unit vector along v; raises
\* Standard_ConstructionError when v has no length
Dir3(v) ==
    LET m == Magnitude3(v)
    IN  [threw |-> m = 0,
         dir |-> IF m = 0 THEN v
                 ELSE <<FxDiv(v[1], m), FxDiv(v[2], m), FxDiv(v[3], m)>>]

\* gp_Ax2(P, N, Vx): the X direction is N x (Vx x N), the Y direction N x X
Ax2(P, N, Vx) ==
    LET x == Dir3(Cross3(N, Cross3(Vx, N))).dir
    IN  [Location |-> P, Direction |-> N, XDirection |-> x,
         YDirection |-> Cross3(N, x)]

\* the coordinate system SketchPlane(type, origin) sets up
CoordinateSystem(plane_type, origin) ==
    IF plane_type = "XY" THEN Ax2(origin, Vec3(0, 0, 1), Vec3(1, 0, 0))
    ELSE IF plane_type = "XZ" THEN Ax2(origin, Vec3(0, 1, 0), Vec3(1, 0, 0))
    ELSE Ax2(origin, Vec3(1, 0, 0), Vec3(0, 1, 0))

to3D(cs, point2d) ==
    Add3(cs.Location, Add3(Scale3(cs.XDirection, point2d[1]),
                           Scale3(cs.YDirection, point2d[2])))

\* to2D that measures from the world origin
to2D_fromWorldOrigin(cs, point3d) ==
    <<Dot3(point3d, cs.XDirection), Dot3(point3d, cs.YDirection)>>

to2D(cs, point3d) ==
    LET vec == Sub3(point3d, cs.Location)
    IN  <<Dot3(vec, cs.XDirection), Dot3(vec, cs.YDirection)>>

\* SketchPlane(origin, normal, id): the reference axis the constructor
\* picks, its cross product with the normal, and the coordinate system;
\* threw when a gp_Dir could not be built
CustomPlane(origin, normal) ==
    LET gp_normal == Dir3(normal)
        reference == IF Abs(normal[3]) < (9 * SCALE) \div 10
                     THEN Vec3(0, 0, 1) ELSE Vec3(1, 0, 0)
        crossed == Cross3(gp_normal.dir, reference)
        x_dir == Dir3(crossed)
    IN  [threw |-> gp_normal.threw \/ x_dir.threw,
         reference |-> reference,
         crossed |-> crossed,
         coordinate_system_ |->
             IF gp_normal.threw \/ x_dir.threw THEN <<>>
             ELSE Ax2(origin, gp_normal.dir, x_dir.dir)]

\* the planes, points and normals the transformations are tried on
CanonicalTypes == {"XY", "XZ", "YZ"}

PlaneOrigins == {Vec3(0, 0, 0), Vec3(1, -2, 3)}

Points2d == {<<x, y>> : x \in {Fx(-1), 0, 1500}, y \in {Fx(-1), 0, 2500}}

Points3d ==
    {<<Fx(x), Fx(y), Fx(z)>> : x \in {0, 1, 3}, y \in {0, -2, 3}, z \in {0, 3}}

CustomNormals ==
    {Vec3(0, 0, 0), Vec3(0, 0, 1), Vec3(1, 0, 0), Vec3(0, 1, 0),
     <<0, 0, 500>>, <<600, 0, 800>>, Vec3(3, 0, 4), Vec3(0, 0, -2),
     Vec3(1, 2, 2)}

\* a SketchPlane operation returns
PlaneReturns(op, args, r, t) ==
    /\ call' = Call(op, args)
    /\ ret' = r
    /\ threw' = t
    /\ UNCHANGED <<elements_, is_closed_, extrudeVars, registryVars>>

PlaneInit ==
    /\ SketchIdle
    /\ ExtrudeIdle
    /\ RegistryIdle

To3D ==
    \E plane_type \in CanonicalTypes, origin \in PlaneOrigins,
       point2d \in Points2d :
        PlaneReturns("to3D", <<plane_type, origin, point2d>>,
                     to3D(CoordinateSystem(plane_type, origin), point2d), FALSE)

To2D ==
    \E plane_type \in CanonicalTypes, origin \in PlaneOrigins,
       point3d \in Points3d :
        PlaneReturns("to2D", <<plane_type, origin, point3d>>,
                     to2D(CoordinateSystem(plane_type, origin), point3d), FALSE)

CreateCustomPlane ==
    \E origin \in PlaneOrigins, normal \in CustomNormals :
        LET r == CustomPlane(origin, normal)
        IN  PlaneReturns("createCustomPlane", <<origin, normal>>, r, r.threw)

PlaneNext ==
    \/ To3D
    \/ To2D
    \/ CreateCustomPlane

PlaneSpec == PlaneInit /\ [][PlaneNext]_vars

\* a, b and c are unit vectors, each at right angles to the other two
Orthonormal(a, b, c) ==
    /\ Magnitude3(a) = SCALE /\ Magnitude3(b) = SCALE /\ Magnitude3(c) = SCALE
    /\ Dot3(a, b) = 0 /\ Dot3(a, c) = 0 /\ Dot3(b, c) = 0

\* point3d lies on the plane of cs
OnPlane(cs, point3d) == Dot3(Sub3(point3d, cs.Location), cs.Direction) = 0

\* C21: for each canonical plane type (XY, XZ, YZ) with any origin, the
\* in-plane axes U, V and the normal are mutually orthogonal unit vectors,
\* to2D(to3D(q)) = q for every 2D point q, and to3D(to2D(p)) = p for every
\* 3D point p lying on the plane.
C21_AxesOrthonormalAndInverse ==
    call.op \in {"to3D", "to2D"} =>
        LET cs == CoordinateSystem(call.args[1], call.args[2])
        IN  /\ Orthonormal(cs.XDirection, cs.YDirection, cs.Direction)
            /\ call.op = "to3D" => to2D(cs, ret) = call.args[3]
            /\ (call.op = "to2D" /\ OnPlane(cs, call.args[3]))
                   => to3D(cs, ret) = call.args[3]

\* to2D has just mapped a point of the XZ plane through (1, -2, 3), away
\* from its origin along both axes, to its 2D coordinates
C21_Witness_PointOnShiftedPlane ==
    /\ call.op = "to2D"
    /\ call.args[1] = "XZ"
    /\ call.args[2] = Vec3(1, -2, 3)
    /\ OnPlane(CoordinateSystem("XZ", call.args[2]), call.args[3])
    /\ ret = <<Fx(2), Fx(3)>>

----------------------------------------------------------------------------
(* OCCTEngine::tessellate.  The kernel is an environment: per face of the  *)
(* shape it reports no triangulation, or one with its nodes and its        *)
(* triangles (node numbers from 1), and it may raise Standard_Failure.     *)
(* A vertex triple is modelled as one entry <<face, node>>, an index       *)
(* triple as one entry <<i1, i2, i3>>.                                     *)

Triangulation(nb_nodes, triangles, reversed) ==
    [isNull |-> FALSE, NbNodes |-> nb_nodes, triangles |-> triangles,
     reversed |-> reversed]

NullTriangulation ==
    [isNull |-> TRUE, NbNodes |-> 0, triangles |-> <<>>, reversed |-> FALSE]

\* the index triple pushed for one triangle of a face
FaceIndices(base_vertex_index, tri, reversed) ==
    IF reversed
    THEN <<base_vertex_index + tri[1] - 1, base_vertex_index + tri[3] - 1,
           base_vertex_index + tri[2] - 1>>
    ELSE <<base_vertex_index + tri[1] - 1, base_vertex_index + tri[2] - 1,
           base_vertex_index + tri[3] - 1>>

RECURSIVE ExploreFaces(_, _, _, _)
\* the loop over the faces from face k on; fault is the number of the face
\* at whose normals the kernel raises (0: none), after its vertices were
\* pushed and before its triangles are
ExploreFaces(tris, k, mesh, fault) ==
    IF k > Len(tris) THEN [mesh EXCEPT !.threw = FALSE]
    ELSE IF tris[k].isNull THEN ExploreFaces(tris, k + 1, mesh, fault)
    ELSE
    LET base_vertex_index == Len(mesh.vertices)
        vertices == mesh.vertices \o [i \in 1..tris[k].NbNodes |-> <<k, i>>]
        faces == mesh.faces \o
                 [i \in 1..Len(tris[k].triangles) |->
                     FaceIndices(base_vertex_index, tris[k].triangles[i],
                                 tris[k].reversed)]
    IN  IF fault = k
        THEN [mesh EXCEPT !.vertices = vertices, !.threw = TRUE]
        ELSE ExploreFaces(tris, k + 1,
                          [mesh EXCEPT !.vertices = vertices, !.faces = faces],
                          fault)

\* tessellate(shape_id): MeshData is default-initialized, so the counts hold
\* whatever the memory held (indeterminate) until lines 127-128 set them;
\* fault = -1 is BRepMesh_IncrementalMesh raising before any face
tessellate(exists, tris, fault, indeterminate) ==
    LET meshData == [vertices |-> <<>>, faces |-> <<>>,
                     vertex_count |-> indeterminate[1],
                     face_count |-> indeterminate[2], threw |-> FALSE]
    IN  IF ~exists THEN meshData
        ELSE IF fault = -1 THEN [meshData EXCEPT !.threw = TRUE]
        ELSE LET m == ExploreFaces(tris, 1, meshData, fault)
             IN  IF m.threw THEN m
                 ELSE [m EXCEPT !.vertex_count = Len(m.vertices),
                                !.face_count = Len(m.faces)]

\* the triangulations the kernel reports for a face
FaceTriangulations ==
    {NullTriangulation,
     Triangulation(3, <<<<1, 2, 3>>>>, FALSE),
     Triangulation(3, <<<<1, 2, 3>>>>, TRUE),
     Triangulation(4, <<<<1, 2, 3>>, <<1, 3, 4>>>>, FALSE)}

\* the faces of a shape: one or two
ShapeTriangulations ==
    {<<f>> : f \in FaceTriangulations}
        \cup {<<f, g>> : f \in FaceTriangulations, g \in FaceTriangulations}

\* where the kernel raises: nowhere, in the mesher, or at a face's normals
FaultInputs == {0, -1, 1, 2}

\* what an int that was never written may hold
IndeterminateInts == {<<0, 0>>, <<-1, 7>>, <<3, 1>>}

MeshInit ==
    /\ SketchIdle
    /\ ExtrudeIdle
    /\ RegistryIdle

Tessellate ==
    \E exists \in BOOLEAN, tris \in ShapeTriangulations, fault \in FaultInputs,
       indeterminate \in IndeterminateInts :
        LET meshData == tessellate(exists, tris, fault, indeterminate)
        IN  /\ call' = Call("tessellate", <<exists, tris, fault>>)
            /\ ret' = meshData
            /\ threw' = FALSE
            /\ UNCHANGED <<elements_, is_closed_, extrudeVars, registryVars>>

MeshNext == Tessellate

MeshSpec == MeshInit /\ [][MeshNext]_vars

\* the indices are vertex numbers of the mesh and the counts are the
\* numbers of vertex triples and of index triples
WellFormedMesh(meshData) ==
    /\ \A i \in 1..Len(meshData.faces) : \A j \in 1..3 :
           /\ 0 <= meshData.faces[i][j]
           /\ meshData.faces[i][j] < meshData.vertex_count
    /\ meshData.vertex_count = Len(meshData.vertices)
    /\ meshData.face_count = Len(meshData.faces)

\* C22: for every mesh returned by tessellate on a registered shape,
\* whatever the kernel reports per face, every entry of the triangle index
\* list lies in [0, vertex_count), where vertex_count is the number of vertex
\* triples in the returned vertex list, and face_count is the number of
\* index triples.
C22_MeshIndicesInRange ==
    (call.op = "tessellate" /\ call.args[1]) => WellFormedMesh(ret)

\* what the code does: the mesh is well formed whenever the kernel raised
\* nothing; after a fault the counts were never written
C22_CodeSetsCountsUnlessFault ==
    (call.op = "tessellate" /\ call.args[1] /\ ~ret.threw)
        => /\ WellFormedMesh(ret)
           /\ Len(ret.vertices) > 0 => Len(ret.vertices) >= 3

----------------------------------------------------------------------------
(* Sketch::createWire and createFaceFromElement: the edges handed to the   *)
(* wire builder, in order.  An edge is a record of the element it was      *)
(* built from (its place in elements_), its kind and its 3D points.  The   *)
(* kernel is an environment: null_edges are the places of the elements     *)
(* for which it builds no edge (createElement2D then returns a null edge,  *)
(* and the Edge() of a rectangle side raises).                             *)

Edge(k, kind, points, radius) ==
    [element |-> k, kind |-> kind, points |-> points, radius |-> radius]

LineEdge(cs, k, p, q) == Edge(k, "line", <<to3D(cs, p), to3D(cs, q)>>, 0)

\* the four corners: bottom-left, bottom-right, top-right, top-left
RectangleCorners(element) ==
    LET corner == element.start_point
        width == element.parameters[1]
        height == element.parameters[2]
    IN  <<corner, <<corner[1] + width, corner[2]>>,
          <<corner[1] + width, corner[2] + height>>,
          <<corner[1], corner[2] + height>>>>

\* bottom, right, top, left
RectangleEdges(cs, k, element) ==
    LET p == RectangleCorners(element)
    IN  <<LineEdge(cs, k, p[1], p[2]), LineEdge(cs, k, p[2], p[3]),
          LineEdge(cs, k, p[3], p[4]), LineEdge(cs, k, p[4], p[1])>>

\* createElement2D of the element at place k, when the kernel builds it
createElement2D(cs, k, element) ==
    IF element.type = "LINE"
    THEN LineEdge(cs, k, element.start_point, element.end_point)
    ELSE IF element.type = "CIRCLE"
    THEN Edge(k, "circle", <<to3D(cs, element.center_point)>>,
              element.parameters[1])
    ELSE IF element.type = "ARC"
    THEN Edge(k, "arc", <<cs.Location>>, element.parameters[1])
    ELSE IF element.type = "RECTANGLE"
    THEN RectangleEdges(cs, k, element)[1]
    ELSE Edge(k, "fillet", <<to3D(cs, element.center_point),
                             to3D(cs, element.start_point),
                             to3D(cs, element.end_point)>>,
              element.parameters[1])

hasFillets(elems) == \E k \in 1..Len(elems) : elems[k].type = "FILLET"

\* the identifiers the fillets of the sketch reference
filleted_elements(elems) ==
    {elems[k].referenced_elements[j] :
        k \in {i \in 1..Len(elems) : elems[i].type = "FILLET"}, j \in 1..2}

RECURSIVE SimpleWireEdges(_, _, _, _)
\* the loop of the branch without fillets, from place k on
SimpleWireEdges(elems, cs, null_edges, k) ==
    IF k > Len(elems) THEN <<>>
    ELSE IF elems[k].type = "RECTANGLE"
    THEN IF k \in null_edges THEN <<>>
         ELSE RectangleEdges(cs, k, elems[k])
                  \o SimpleWireEdges(elems, cs, null_edges, k + 1)
    ELSE IF k \in null_edges
    THEN SimpleWireEdges(elems, cs, null_edges, k + 1)
    ELSE <<createElement2D(cs, k, elems[k])>>
             \o SimpleWireEdges(elems, cs, null_edges, k + 1)

RECURSIVE OrderedEdges(_, _, _, _, _)
\* one loop of the branch with fillets, from place k on: over the elements
\* that are no fillet and that no fillet references, or over the fillets
OrderedEdges(elems, cs, null_edges, k, fillets) ==
    IF k > Len(elems) THEN <<>>
    ELSE LET taken == IF fillets THEN elems[k].type = "FILLET"
                      ELSE /\ elems[k].type # "FILLET"
                           /\ elems[k].id \notin filleted_elements(elems)
         IN  (IF taken /\ k \notin null_edges
              THEN <<createElement2D(cs, k, elems[k])>> ELSE <<>>)
                 \o OrderedEdges(elems, cs, null_edges, k + 1, fillets)

\* createWire that keeps the lines the fillets reference
createWire_keepsReferenced(elems, cs, null_edges) ==
    SimpleWireEdges(elems, cs, null_edges, 1)

createWire(elems, cs, null_edges) ==
    IF ~hasFillets(elems) THEN SimpleWireEdges(elems, cs, null_edges, 1)
    ELSE OrderedEdges(elems, cs, null_edges, 1, FALSE)
             \o OrderedEdges(elems, cs, null_edges, 1, TRUE)

\* the edges createFaceFromElement builds its wire from
createFaceFromElement(elems, cs, element_id) ==
    LET k == FirstElement(elems, element_id)
    IN  IF k = 0 THEN <<>>
        ELSE IF elems[k].type = "RECTANGLE" THEN RectangleEdges(cs, k, elems[k])
        ELSE <<createElement2D(cs, k, elems[k])>>

\* the planes the sketch is tried on
WirePlanes ==
    {CoordinateSystem("XY", Vec3(0, 0, 0)), CoordinateSystem("XZ", Vec3(1, -2, 3))}

\* the edges of a wire, as a set
EdgeSet(wire) == {wire[i] : i \in 1..Len(wire)}

\* the places of the lines of the sketch that a fillet references
ReferencedLines(elems) ==
    {k \in 1..Len(elems) : /\ elems[k].type = "LINE"
                           /\ elems[k].id \in filleted_elements(elems)}

\* C23: when a sketch contains a fillet, createWire inserts, for each line
\* the fillet references, that line's full untrimmed original edge into
\* the wire, in addition to the fillet arc.
C23_ReferencedLinesInWire ==
    hasFillets(elements_) =>
        \A cs \in WirePlanes :
            LET wire == EdgeSet(createWire(elements_, cs, {}))
            IN  /\ \A k \in ReferencedLines(elements_) :
                       LineEdge(cs, k, elements_[k].start_point,
                                elements_[k].end_point) \in wire
                /\ \A k \in 1..Len(elements_) :
                       elements_[k].type = "FILLET"
                           => createElement2D(cs, k, elements_[k]) \in wire

\* what the code does: every fillet arc is in the wire, and no edge of the
\* wire was built from an element that a fillet references
C23_CodeLeavesReferencedOut ==
    hasFillets(elements_) =>
        \A cs \in WirePlanes :
            LET wire == EdgeSet(createWire(elements_, cs, {}))
            IN  /\ \A e \in wire :
                       elements_[e.element].id \notin filleted_elements(elements_)
                /\ \A k \in 1..Len(elements_) :
                       elements_[k].type = "FILLET"
                           => createElement2D(cs, k, elements_[k]) \in wire

\* the places of the elements whose edges the wire holds, in the order of
\* the wire, the run of edges of one element counted once
RECURSIVE PlacesOf(_)
PlacesOf(wire) ==
    IF wire = <<>> THEN <<>>
    ELSE LET rest == PlacesOf(Tail(wire))
         IN  IF rest # <<>> /\ rest[1] = wire[1].element THEN rest
             ELSE <<wire[1].element>> \o rest

\* the places in S, in increasing order
RECURSIVE InOrder(_)
InOrder(S) ==
    IF S = {} THEN <<>>
    ELSE LET k == CHOOSE i \in S : \A j \in S : i <= j
         IN  <<k>> \o InOrder(S \ {k})

\* the fillets of the sketch, and the elements that are no fillet and that
\* no fillet references
FilletPlaces(elems) == {k \in 1..Len(elems) : elems[k].type = "FILLET"}

UnreferencedPlaces(elems) ==
    {k \in 1..Len(elems) : /\ elems[k].type # "FILLET"
                           /\ elems[k].id \notin filleted_elements(elems)}

\* the order the claim describes, over the elements in the set built
ClaimedOrder(elems, built) ==
    IF hasFillets(elems)
    THEN InOrder(UnreferencedPlaces(elems) \cap built)
             \o InOrder(FilletPlaces(elems) \cap built)
    ELSE InOrder((1..Len(elems)) \cap built)

\* the elements before the first rectangle whose sides the kernel cannot
\* build (all of them when there is none)
BeforeFailedRectangle(elems, null_edges) ==
    {k \in 1..Len(elems) :
        \A j \in 1..k : ~(elems[j].type = "RECTANGLE" /\ j \in null_edges)}

RectanglePlaces(elems) == {k \in 1..Len(elems) : elems[k].type = "RECTANGLE"}

\* createFaceFromElement, called with the identifier of the rectangle at
\* place k when that identifier finds it, builds its wire from the four
\* sides
FaceFromFourSides(elems, cs, k) ==
    FirstElement(elems, elems[k].id) = k
        => createFaceFromElement(elems, cs, elems[k].id)
               = RectangleEdges(cs, k, elems[k])

\* C25: for every Rectangle element of a sketch, createWire contributes the
\* four edges joining its four computed corner points (bottom, right, top,
\* left), whether or not the sketch also contains fillet elements;
\* createFaceFromElement on a Rectangle likewise builds its wire from those
\* four edges.
C25_RectangleFourEdges ==
    \A cs \in WirePlanes, k \in RectanglePlaces(elements_) :
        /\ EdgeSet(RectangleEdges(cs, k, elements_[k]))
               \subseteq EdgeSet(createWire(elements_, cs, {}))
        /\ FaceFromFourSides(elements_, cs, k)

\* what the code does: the four sides without a fillet in the sketch, the
\* bottom side alone beside a fillet
C25_CodeBottomEdgeBesideFillet ==
    \A cs \in WirePlanes, k \in RectanglePlaces(elements_) :
        LET wire == createWire(elements_, cs, {})
            sides == RectangleEdges(cs, k, elements_[k])
        IN  /\ ~hasFillets(elements_) => EdgeSet(sides) \subseteq EdgeSet(wire)
            /\ hasFillets(elements_)
                   => {e \in EdgeSet(wire) : e.element = k} \subseteq {sides[1]}
            /\ FaceFromFourSides(elements_, cs, k)

(***************************************************************************)
(* ExtrudeFeature: validity flag, returned boolean and stored features     *)
(***************************************************************************)

\* the kernel outcomes ExecuteAndStore is applied under
StoreKernels ==
    {Kernel("valid", TRUE, k, a) : k \in PrismOutcomes, a \in BOOLEAN}

\* the operation ended with the analyzer run on the solid of MakePrism:
\* the kernel had produced a non-null shape
PrismBuilt(calls) ==
    /\ Len(calls) >= 2
    /\ calls[Len(calls) - 1] = "MakePrism"
    /\ calls[Len(calls)] = "BRepCheck_Analyzer"

StoredOnlyValid(f) ==
    \A kern \in StoreKernels :
        LET e == ExecuteAndStore(NewEngine, f, 1, kern).engine
        IN  \A id \in DOMAIN e.extrude_features_ :
                e.extrude_features_[id].is_valid_

\* C26: after every execute() and regenerate() the returned boolean equals
\* isValid(); isValid() is true exactly when validation passed, the kernel
\* produced a non-null shape and the analyzer accepted it; in every state
\* isValid() implies a non-null getShape(); and the engine stores a feature
\* only when its isValid() is true.  execute() changes neither the
\* parameters nor the base, so validation is read in the state it returns.
C26_ValidityAgreesWithReturn ==
    /\ feature.is_valid_ => ~feature.result_shape_.isNull
    /\ xcall.op \in {"execute", "regenerate"} =>
           /\ xret = feature.is_valid_
           /\ feature.is_valid_ =
                  (/\ canExtrude(feature)
                   /\ PrismBuilt(kernel_calls)
                   /\ feature.result_shape_.valid)
    /\ StoredOnlyValid(feature)

\* a regenerate() that failed on a feature that still holds the shape of
\* an earlier successful execute()
C26_Witness_FailedRegenerateKeepsShape ==
    /\ xcall.op = "regenerate"
    /\ xret = FALSE
    /\ ~feature.is_valid_
    /\ ~feature.result_shape_.isNull
    /\ ~canExtrude(feature)


\* C27: generatePreview() leaves the parameters, the result shape and the
\* validity flag unchanged in every case, and returns a non-null shape
\* exactly when execute() on the same feature state would obtain a
\* non-null shape from the kernel, through the same type branch and with
\* the same vector.
C27_PreviewAgreesWithExecute ==
    /\ \A k \in PrismOutcomes, a \in BOOLEAN :
           LET preview == generatePreview(feature, k, a)
               run == execute(feature, k, a)
           IN  /\ preview.feature = feature
               /\ (~preview.ret.isNull) <=> PrismBuilt(run.calls)
               /\ preview.vector = run.vector
               /\ ~preview.ret.isNull => preview.ret = run.feature.result_shape_

\* a preview that returned a shape on a feature that was never executed
C27_Witness_PreviewOfUnexecuted ==
    /\ xcall.op = "generatePreview"
    /\ ~xret.isNull
    /\ ~feature.is_valid_
    /\ feature.result_shape_.isNull


(***************************************************************************)
(* SketchPlane: reference axis of a custom plane                           *)
(***************************************************************************)

\* C28: for every non-zero normal, normalized or not, the custom-plane
\* constructor picks a reference axis that is not parallel to the normal,
\* so the cross product that defines the in-plane X axis is never zero
\* and the construction does not fail.
C28_ReferenceNotParallel ==
    call.op = "createCustomPlane" /\ call.args[2] # Vec3(0, 0, 0) =>
        /\ ret.crossed # Vec3(0, 0, 0)
        /\ ~threw

\* what the code guarantees: the test on normal.z is made on the normal as
\* given, so the cross product is non-zero for every normal of unit length
C28_CodeNotParallelForUnitNormals ==
    call.op = "createCustomPlane" /\ Magnitude3(call.args[2]) = SCALE =>
        /\ ret.crossed # Vec3(0, 0, 0)
        /\ ~threw


(***************************************************************************)
(* SessionManager: lifetime of the engine a request holds                  *)
(***************************************************************************)

\* C29: under any interleaving with cleanupSession and cleanupAllSessions,
\* the engine returned by getOrCreateSession is never destroyed while the
\* request that obtained it is still to run its modeling operation on it:
\* no use after destruction is reachable.
C29_NoUseAfterDestruction ==
    /\ \A t \in Threads :
           pc[t] = "have_engine" => engines[engine_ptr[t]].alive
    /\ ~use_after_free

\* what the code guarantees: the engine a request holds is destroyed only
\* by a cleanup that ran after the request obtained it
C29_CodeDestroysOnlyByCleanup ==
    \A t \in Threads :
        pc[t] = "have_engine" /\ ~engines[engine_ptr[t]].alive
            => t \in cleaned


(***************************************************************************)
(* Sketch: the lines a fillet refers to                                    *)
(***************************************************************************)

\* the identifier names a Line of the sketch
NamesLine(elems, id) ==
    \E i \in 1..Len(elems) : elems[i].id = id /\ elems[i].type = "LINE"

TwoDifferentReferences(element) ==
    /\ Len(element.referenced_elements) = 2
    /\ element.referenced_elements[1] # element.referenced_elements[2]

\* C30: in every reachable state of a sketch, removeElement included, every
\* Fillet carries exactly two referenced identifiers, they differ, and each
\* names a Line that is present in the sketch.
C30_FilletReferencesPresentLines ==
    \A i \in 1..Len(elements_) :
        elements_[i].type = "FILLET" =>
            /\ TwoDifferentReferences(elements_[i])
            /\ \A k \in 1..2 :
                   NamesLine(elements_, elements_[i].referenced_elements[k])

\* what the code guarantees: every fillet carries two different
\* identifiers, and they name Lines of the sketch when addFillet returns
C30_CodeReferencesLinesWhenAdded ==
    /\ \A i \in 1..Len(elements_) :
           elements_[i].type = "FILLET" => TwoDifferentReferences(elements_[i])
    /\ call.op = "addFillet" /\ ret # NoId =>
           LET fillet == elements_[Len(elements_)]
           IN  /\ fillet.type = "FILLET"
               /\ fillet.id = ret
               /\ fillet.referenced_elements = <<call.args[1], call.args[2]>>
               /\ \A k \in 1..2 :
                      NamesLine(elements_, fillet.referenced_elements[k])


====
